---- MODULE Spec2Model ----
(***************************************************************************)
(* A model of the retrieval core of the RAG pipeline: the token chunker    *)
(* (app/services/chunking.py), reciprocal rank fusion                       *)
(* (app/services/retrieval/hybrid_retriever.py), MMR selection              *)
(* (app/services/rag/mmr_selector.py), context assembly                     *)
(* (app/services/rag/query_service.py) and citation extraction              *)
(* (app/services/rag/citation_manager.py, app/utils/text_utils.py).         *)
(*                                                                          *)
(* Each component has a specification of its own (SpecCite, SpecCtx,        *)
(* SpecChunk, SpecSplit, SpecFuse, SpecMMR, SpecQuery, SpecSemantic,        *)
(* SpecKeyword, SpecIngest, SpecIndex): the arguments are drawn from        *)
(* bounded sets and an action is the code of an entry point from one await  *)
(* to the next.  The variable of a component that a specification does not  *)
(* exercise stays at Idle.                                                  *)
(***************************************************************************)
EXTENDS Integers, Sequences, FiniteSets, TLC

VARIABLES citation, context, chunker, fusion, mmr,
          query, semantic, keyword, ingestion, indexing

vars == <<citation, context, chunker, fusion, mmr,
         query, semantic, keyword, ingestion, indexing>>

Idle == [pc |-> "idle"]

(***************************************************************************)
(* Generic helpers: Python list idioms.                                     *)
(***************************************************************************)
Min(a, b) == IF a <= b THEN a ELSE b

Max(a, b) == IF a >= b THEN a ELSE b

Range(s) == {s[i] : i \in 1..Len(s)}

\* seq[:n] for n >= 0
Take(s, n) == SubSeq(s, 1, Min(n, Len(s)))

\* All sequences over S of length 0..n
SeqsUpTo(S, n) == UNION {[1..k -> S] : k \in 0..n}

\* sorted(set(xs)) for a list of integers: ascending, duplicates removed
RECURSIVE SortedSetOf(_)
SortedSetOf(S) ==
    IF S = {} THEN <<>>
    ELSE LET m == CHOOSE x \in S : \A y \in S : x <= y
         IN  <<m>> \o SortedSetOf(S \ {m})

(***************************************************************************)
(* CitationResolver.                                                        *)
(*                                                                          *)
(* An answer text is a sequence of tokens: NoMarker is a stretch of text    *)
(* the pattern \[Source (\d+)\] does not match, a number n >= 0 is a        *)
(* marker "[Source n]" (\d+ matches no sign, so n is never negative).       *)
(***************************************************************************)
MaxAnswerLen == 3
MaxMarker == 3
MaxCiteHits == 2

NoMarker == -1

AnswerTexts == SeqsUpTo({NoMarker} \cup (0..MaxMarker), MaxAnswerLen)

\* The context hits handed to the resolver: the i-th hit holds chunk i.
ChunksUsed(n) == [i \in 1..n |-> [chunk_id |-> i, score |-> n - i + 1]]

\* re.findall(pattern, text), each match converted with int()
extract_citations_from_text(text) == SelectSeq(text, LAMBDA t : t >= 0)

\* Python list indexing lst[idx]: a negative idx counts from the end;
\* IndexError when idx is outside [-len, len - 1].
PyIndexInRange(lst, idx) == -Len(lst) <= idx /\ idx <= Len(lst) - 1

PyIndex(lst, idx) == IF idx >= 0 THEN lst[idx + 1] ELSE lst[Len(lst) + idx + 1]

\* The body of the for loop at citation_manager.py:39-63.  source_num is the
\* loop variable citation_num a record was appended for (the record itself
\* has no such field; it is kept to tell which marker produced the record).
RECURSIVE CitationLoop(_, _, _)
CitationLoop(nums, chunks_used, formatted_citations) ==
    IF nums = <<>> THEN [raised |-> FALSE, out |-> formatted_citations]
    ELSE LET citation_num == Head(nums)
             chunk_index  == citation_num - 1
         IN  IF chunk_index < Len(chunks_used)
             THEN IF PyIndexInRange(chunks_used, chunk_index)
                  THEN LET result == PyIndex(chunks_used, chunk_index)
                       IN  CitationLoop(Tail(nums), chunks_used,
                               Append(formatted_citations,
                                      [chunk_id        |-> result.chunk_id,
                                       relevance_score |-> result.score,
                                       source_num      |-> citation_num]))
                  ELSE [raised |-> TRUE, out |-> formatted_citations]
             ELSE CitationLoop(Tail(nums), chunks_used, formatted_citations)

\* CitationManager.extract_citations: the try block, and the except clause
\* that logs and returns [] for any exception raised inside it.
extract_citations(answer_text, chunks_used) ==
    LET citation_numbers == extract_citations_from_text(answer_text)
        r == CitationLoop(SortedSetOf(Range(citation_numbers)), chunks_used, <<>>)
    IN  IF r.raised THEN [raised |-> FALSE, citations |-> <<>>]
                    ELSE [raised |-> FALSE, citations |-> r.out]

InitCite ==
    /\ indexing = Idle
    /\ citation = [pc |-> "ready"]
    /\ context = Idle /\ chunker = Idle /\ fusion = Idle /\ mmr = Idle
    /\ query = Idle /\ semantic = Idle /\ keyword = Idle /\ ingestion = Idle

ExtractCitations ==
    /\ citation.pc = "ready"
    /\ \E answer_text \in AnswerTexts, n \in 0..MaxCiteHits :
          LET chunks_used == ChunksUsed(n)
              r == extract_citations(answer_text, chunks_used)
          IN  citation' = [pc          |-> "done",
                           answer_text |-> answer_text,
                           chunks_used |-> chunks_used,
                           raised      |-> r.raised,
                           citations   |-> r.citations]
    /\ UNCHANGED <<indexing, context, chunker, fusion, mmr,
                   query, semantic, keyword, ingestion>>

NextCite == ExtractCitations

SpecCite == InitCite /\ [][NextCite]_vars

\* C1: a marker [Source N] whose number N lies outside [1, len(hits)] never
\* produces a CitationRecord, and the call never raises: every record of the
\* result was produced for a marker number within 1..len(hits).
C1_CitationBounds ==
    citation.pc = "done" =>
        /\ ~citation.raised
        /\ \A k \in 1..Len(citation.citations) :
              citation.citations[k].source_num \in 1..Len(citation.chunks_used)

(***************************************************************************)
(* ContextAssembler.                                                        *)
(*                                                                          *)
(* The assembler only ever splits a string on whitespace, counts the words  *)
(* and keeps a prefix of them, so a string is modelled by its number of     *)
(* whitespace-separated words.                                              *)
(***************************************************************************)
MaxCtxHits == 2

\* settings.rag_max_context_tokens values exercised (the default is 6000)
CtxBudgets == {10, 101, 120, 200, 300}

\* Words of a chunk's content, and of its document's file name
CtxContentWords == {2, 70, 90, 200}

CtxFilenameWords == {1, 2}

CtxHits == [content_words : CtxContentWords, filename_words : CtxFilenameWords]

\* the "if remaining_tokens > 100" threshold
MinRemainingTokens == 100

\* estimate_tokens: int(len(text.split()) * 1.3)
estimate_tokens(words) == (13 * words) \div 10

\* truncate_text(text, max_tokens): the text unchanged when its estimate fits,
\* else ' '.join(words[:int(max_tokens / 1.3)]) + "..." (the dots are glued
\* to the last kept word; with no word kept they are a word of their own).
truncate_text(words, max_tokens) ==
    IF estimate_tokens(words) <= max_tokens THEN words
    ELSE LET words_to_keep == (10 * max_tokens) \div 13
         IN  IF words_to_keep = 0 THEN 1 ELSE Min(words_to_keep, words)

\* format_chunk_for_context: "[Source {i}]", "Document: {filename}",
\* "Page: {page or 'N/A'}", "Content: {content}", "---": 7 words of frame
\* (the page number or N/A is one word) plus the file name and the content.
format_chunk_for_context(filename_words, content_words) ==
    2 + (1 + filename_words) + 2 + (1 + content_words) + 1

\* A faulty variant of MeaningfulSpaceLeft: the threshold test is dropped and
\* any remaining budget is taken as enough for a truncated block.
MeaningfulSpaceLeft_Always(remaining_tokens) == remaining_tokens >= 0

\* "if remaining_tokens > 100": only add if meaningful space is left
MeaningfulSpaceLeft(remaining_tokens) == remaining_tokens > MinRemainingTokens

\* The for loop of QueryService._prepare_context over chunks[i..]; a part of
\* context_parts is recorded as the source number it carries, its words and
\* whether its content went through truncate_text.
RECURSIVE PrepareContextLoop(_, _, _, _, _)
PrepareContextLoop(chunks, i, total_tokens, context_parts, max_tokens) ==
    IF i > Len(chunks) THEN context_parts
    ELSE LET result       == chunks[i]
             chunk_text   == format_chunk_for_context(result.filename_words,
                                                      result.content_words)
             chunk_tokens == estimate_tokens(chunk_text)
         IN  IF total_tokens + chunk_tokens > max_tokens
             THEN LET remaining_tokens == max_tokens - total_tokens
                  IN  IF MeaningfulSpaceLeft(remaining_tokens)
                      THEN LET truncated_content ==
                                   truncate_text(result.content_words, remaining_tokens)
                           IN  Append(context_parts,
                                      [index     |-> i,
                                       words     |-> format_chunk_for_context(
                                                         result.filename_words,
                                                         truncated_content),
                                       truncated |-> TRUE])
                      ELSE context_parts
             ELSE PrepareContextLoop(chunks, i + 1, total_tokens + chunk_tokens,
                                     Append(context_parts,
                                            [index     |-> i,
                                             words     |-> chunk_text,
                                             truncated |-> FALSE]),
                                     max_tokens)

\* QueryService._prepare_context
prepare_context(chunks, max_tokens) ==
    PrepareContextLoop(chunks, 1, 0, <<>>, max_tokens)

\* Words of '\n'.join(context_parts): every part ends in a newline, so the
\* words of the parts add up.
RECURSIVE ContextWords(_)
ContextWords(context_parts) ==
    IF context_parts = <<>> THEN 0
    ELSE Head(context_parts).words + ContextWords(Tail(context_parts))

InitCtx ==
    /\ indexing = Idle
    /\ context = [pc |-> "ready"]
    /\ citation = Idle /\ chunker = Idle /\ fusion = Idle /\ mmr = Idle
    /\ query = Idle /\ semantic = Idle /\ keyword = Idle /\ ingestion = Idle

PrepareContext ==
    /\ context.pc = "ready"
    /\ \E chunks \in SeqsUpTo(CtxHits, MaxCtxHits), max_tokens \in CtxBudgets :
          context' = [pc            |-> "done",
                      chunks        |-> chunks,
                      max_tokens    |-> max_tokens,
                      context_parts |-> prepare_context(chunks, max_tokens)]
    /\ UNCHANGED <<indexing, citation, chunker, fusion, mmr,
                   query, semantic, keyword, ingestion>>

NextCtx == PrepareContext

SpecCtx == InitCtx /\ [][NextCtx]_vars

\* C2: the token estimate of the context string returned by _prepare_context
\* never exceeds maxContextTokens, whether the last block is full or truncated.
C2_ContextWithinBudget ==
    context.pc = "done" =>
        estimate_tokens(ContextWords(context.context_parts)) <= context.max_tokens

(***************************************************************************)
(* Chunker (TokenChunker).                                                  *)
(*                                                                          *)
(* A text is given by the sentences split_by_sentences returns for it, in   *)
(* order; the empty sequence is an empty or whitespace-only text.  A        *)
(* sentence is its length in characters and its count_tokens value; both    *)
(* are at least 1, because a sentence is a stripped non-empty string and    *)
(* the tokenizer gives a non-empty string at least one token.  The content  *)
(* of a chunk, ' '.join(current_chunk), is the sequence of the positions    *)
(* (1-based) of its sentences in the text.                                  *)
(***************************************************************************)
MaxSentences == 3
MaxSentTokens == 2
MaxChunkSize == 3
MaxMinChunk == 2
MaxPages == 3
MaxPageSentences == 2

SentenceLens == {1, 2}

Sentences == [len : SentenceLens, tokens : 1..MaxSentTokens]

\* The sentences of a page: one character, one token each, so that a page is
\* given by its number of sentences.
PageSentences == [len : {1}, tokens : {1}]

Texts == SeqsUpTo(Sentences, MaxSentences)

PageTexts == SeqsUpTo(PageSentences, MaxPageSentences)

\* The parameters a constructed TokenChunker holds: __init__ raises unless
\* chunk_size > 0 and 0 <= chunk_overlap < chunk_size.
ChunkerConfigs ==
    {c \in [chunk_size     : 1..MaxChunkSize,
            chunk_overlap  : 0..MaxChunkSize,
            min_chunk_size : 0..MaxMinChunk] : c.chunk_overlap < c.chunk_size}

\* sentence_positions[k]['start'] (chunking.py:170-177): every sentence is
\* taken to be followed by one joining space.
RECURSIVE SentenceStart(_, _)
SentenceStart(sentences, k) ==
    IF k <= 1 THEN 0
    ELSE SentenceStart(sentences, k - 1) + sentences[k - 1].len + 1

\* char_position after the positions loop
CharPosition(sentences) ==
    IF sentences = <<>> THEN 0
    ELSE SentenceStart(sentences, Len(sentences)) + sentences[Len(sentences)].len + 1

\* text_length (chunking.py:168, 178)
TextLength(sentences) ==
    IF sentences = <<>> THEN 0 ELSE CharPosition(sentences) - 1

\* min(current_tokens, int(self.chunk_size * 1.2))
FinalTokenCount(current_tokens, chunk_size) ==
    Min(current_tokens, (12 * chunk_size) \div 10)

\* A faulty variant of ChunkEndChar: the end offset taken from the chunk's start
\* instead of from the sentence that overflowed.
ChunkEndChar_FromStart(sentences, i, current_start_char) ==
    Min(current_start_char, TextLength(sentences))

\* chunk_end_char = min(sent_info['start'], text_length)
ChunkEndChar(sentences, i, current_start_char) ==
    Min(SentenceStart(sentences, i), TextLength(sentences))

\* The backward walk at chunking.py:214-220; j is the 0-based Python index,
\* so sentence_positions[j] is sentences[j + 1].
RECURSIVE OverlapLoop(_, _, _, _, _)
OverlapLoop(sentences, chunk_overlap, j, overlap_tokens, overlap_sentences) ==
    IF j >= 0 /\ overlap_tokens <= chunk_overlap
    THEN LET overlap_sent == sentences[j + 1]
         IN  IF overlap_tokens + overlap_sent.tokens <= chunk_overlap
             THEN OverlapLoop(sentences, chunk_overlap, j - 1,
                              overlap_tokens + overlap_sent.tokens,
                              <<j + 1>> \o overlap_sentences)
             ELSE OverlapLoop(sentences, chunk_overlap, j - 1,
                              overlap_tokens, overlap_sentences)
    ELSE [j |-> j, overlap_tokens |-> overlap_tokens,
          overlap_sentences |-> overlap_sentences]

\* current_start_char = sentence_positions[j + 1]['start'] if j >= 0 else 0
OverlapStartChar(sentences, j) ==
    IF j >= 0 THEN SentenceStart(sentences, j + 2) ELSE 0

ChunkData(content, chunk_index, token_count, start_char, end_char, page_number) ==
    [content |-> content, chunk_index |-> chunk_index, token_count |-> token_count,
     start_char |-> start_char, end_char |-> end_char, page_number |-> page_number]

\* The while loop at chunking.py:180-230; i is the 1-based position of the
\* sentence looked at, st the loop's local variables.
RECURSIVE PackLoop(_, _, _, _, _)
PackLoop(sentences, cfg, page_number, i, st) ==
    IF i > Len(sentences) THEN st
    ELSE LET sent_tokens == sentences[i].tokens
             closing == st.current_tokens + sent_tokens > cfg.chunk_size
                        /\ st.current_chunk # <<>>
             ov == OverlapLoop(sentences, cfg.chunk_overlap, i - 2, 0, <<>>)
             closed ==
                 [chunks |-> Append(st.chunks,
                        ChunkData(st.current_chunk, st.chunk_index,
                                  FinalTokenCount(st.current_tokens, cfg.chunk_size),
                                  st.current_start_char,
                                  ChunkEndChar(sentences, i, st.current_start_char),
                                  page_number)),
                  chunk_index |-> st.chunk_index + 1,
                  current_chunk |-> ov.overlap_sentences,
                  current_tokens |-> ov.overlap_tokens,
                  current_start_char |-> OverlapStartChar(sentences, ov.j)]
             s1 == IF closing THEN closed ELSE st
         IN  PackLoop(sentences, cfg, page_number, i + 1,
                      [s1 EXCEPT !.current_chunk = Append(@, i),
                                 !.current_tokens = @ + sent_tokens])

\* The final flush at chunking.py:232-254
FinalChunk(sentences, cfg, page_number, st) ==
    IF st.current_chunk # <<>>
       /\ (st.current_tokens >= cfg.min_chunk_size \/ Len(st.chunks) = 0)
    THEN Append(st.chunks,
                ChunkData(st.current_chunk, st.chunk_index,
                          FinalTokenCount(st.current_tokens, cfg.chunk_size),
                          st.current_start_char,
                          Min(CharPosition(sentences) - 1, TextLength(sentences)),
                          page_number))
    ELSE st.chunks

\* TokenChunker.create_chunks_with_overlap
create_chunks_with_overlap(sentences, cfg, page_number) ==
    FinalChunk(sentences, cfg, page_number,
               PackLoop(sentences, cfg, page_number, 1,
                        [chunks |-> <<>>, current_chunk |-> <<>>,
                         current_tokens |-> 0, current_start_char |-> 0,
                         chunk_index |-> 0]))

\* TokenChunker.chunk_text: [] for an empty or whitespace-only text
chunk_text(text, cfg, page_number) ==
    IF text = <<>> THEN <<>>
    ELSE create_chunks_with_overlap(text, cfg, page_number)

\* A faulty variant of ReindexChunks: the re-indexing pass left out, so every chunk
\* keeps the index chunk_text gave it within its page.
ReindexChunks_Skipped(all_chunks) == all_chunks

\* The re-indexing loop at chunking.py:348-350
ReindexChunks(all_chunks) ==
    [i \in 1..Len(all_chunks) |-> [all_chunks[i] EXCEPT !.chunk_index = i - 1]]

\* The for loop over pages at chunking.py:327-346; page p carries page
\* number p.
RECURSIVE PagesLoop(_, _, _, _)
PagesLoop(pages, cfg, p, all_chunks) ==
    IF p > Len(pages) THEN all_chunks
    ELSE IF pages[p] = <<>>
         THEN PagesLoop(pages, cfg, p + 1, all_chunks)
         ELSE PagesLoop(pages, cfg, p + 1,
                        all_chunks \o chunk_text(pages[p], cfg, p))

\* TokenChunker.chunk_by_pages
chunk_by_pages(pages, cfg) == ReindexChunks(PagesLoop(pages, cfg, 1, <<>>))

\* page_number: int = None
NoPage == 0

\* The page_number and metadata arguments of chunk_text.  metadata is the
\* caller's dict, given by whether it is falsy (None or {}) and by its
\* 'page_number' entry (NoPage: no entry).
ChunkTextArgs ==
    {[page_number |-> NoPage, metadata |-> [empty |-> TRUE,  page_number |-> NoPage]],
     [page_number |-> 2,      metadata |-> [empty |-> FALSE, page_number |-> NoPage]],
     [page_number |-> NoPage, metadata |-> [empty |-> FALSE, page_number |-> 3]]}

\* A faulty variant of SetPageNumber: the page number is added to the entry the
\* dict already holds.
SetPageNumber_Accumulate(metadata, page_number) ==
    IF page_number # NoPage
    THEN [empty |-> FALSE, page_number |-> metadata.page_number + page_number]
    ELSE metadata

\* "if page_number is not None: metadata['page_number'] = page_number"
SetPageNumber(metadata, page_number) ==
    IF page_number # NoPage
    THEN [empty |-> FALSE, page_number |-> page_number]
    ELSE metadata

\* metadata.get('page_number', 1)
MetadataPage(metadata) ==
    IF metadata.page_number = NoPage THEN 1 ELSE metadata.page_number

\* One call chunk_text(text, document_id, page_number, metadata): the chunks
\* returned and the caller's dict after the call.  "metadata or {}" is the
\* caller's own dict unless that is falsy, so the entry set in it stays.
ChunkTextCall(text, cfg, page_number, metadata) ==
    IF text = <<>> THEN [chunks |-> <<>>, metadata |-> metadata]
    ELSE LET local == SetPageNumber(metadata, page_number)
         IN  [chunks   |-> chunk_text(text, cfg, MetadataPage(local)),
              metadata |-> IF metadata.empty THEN metadata ELSE local]

\* The arguments of TokenChunker(chunk_size, chunk_overlap), a None replaced
\* by the setting, with settings.min_chunk_size
ConstructorArgs ==
    [chunk_size     : -1..MaxChunkSize,
     chunk_overlap  : -1..MaxChunkSize,
     min_chunk_size : 0..MaxMinChunk]

\* A faulty variant of OverlapTooLarge: an overlap equal to the chunk size passes.
OverlapTooLarge_Strict(chunk_overlap, chunk_size) == chunk_overlap > chunk_size

\* "if self.chunk_overlap >= self.chunk_size"
OverlapTooLarge(chunk_overlap, chunk_size) == chunk_overlap >= chunk_size

\* TokenChunker.__init__: the error it raises, "none" when it returns.
\* encoding_loads tells whether tiktoken.get_encoding(encoding_name) returns.
TokenChunkerInit(cfg, encoding_loads) ==
    IF cfg.chunk_size <= 0
    THEN [raised |-> "ChunkingError", error_details |-> "Chunk size must be positive"]
    ELSE IF cfg.chunk_overlap < 0
    THEN [raised |-> "ChunkingError", error_details |-> "Chunk overlap must be non-negative"]
    ELSE IF OverlapTooLarge(cfg.chunk_overlap, cfg.chunk_size)
    THEN [raised |-> "ChunkingError", error_details |-> "Chunk overlap must be smaller than chunk size"]
    ELSE IF ~encoding_loads
    THEN [raised |-> "ChunkingError", error_details |-> "Failed to load tiktoken encoding"]
    ELSE [raised |-> "none", error_details |-> ""]

InitChunk ==
    /\ indexing = Idle
    /\ chunker = [pc |-> "new"]
    /\ citation = Idle /\ context = Idle /\ fusion = Idle /\ mmr = Idle
    /\ query = Idle /\ semantic = Idle /\ keyword = Idle /\ ingestion = Idle

\* TokenChunker(chunk_size, chunk_overlap, encoding_name)
Construct ==
    /\ chunker.pc = "new"
    /\ \E cfg \in ConstructorArgs, encoding_loads \in BOOLEAN :
          LET r == TokenChunkerInit(cfg, encoding_loads)
          IN  chunker' = [pc             |-> IF r.raised = "none" THEN "ready"
                                             ELSE "raised",
                          cfg            |-> cfg,
                          encoding_loads |-> encoding_loads,
                          error          |-> r,
                          text           |-> <<>>,
                          pages          |-> <<>>,
                          page_number    |-> NoPage,
                          metadata       |-> [empty |-> TRUE, page_number |-> NoPage],
                          chunks         |-> <<>>,
                          repeat         |-> <<>>]
    /\ UNCHANGED <<indexing, citation, context, fusion, mmr,
                   query, semantic, keyword, ingestion>>

ChunkText ==
    /\ chunker.pc = "ready"
    /\ \E text \in Texts, args \in ChunkTextArgs :
          LET r == ChunkTextCall(text, chunker.cfg, args.page_number,
                                 args.metadata)
          IN  chunker' = [chunker EXCEPT !.pc = "chunk_text",
                                         !.text = text,
                                         !.page_number = args.page_number,
                                         !.metadata = r.metadata,
                                         !.chunks = r.chunks]
    /\ UNCHANGED <<indexing, citation, context, fusion, mmr,
                   query, semantic, keyword, ingestion>>

\* The same call made again on the same chunker: same text, same page_number,
\* the caller's same dict
ChunkTextAgain ==
    /\ chunker.pc = "chunk_text"
    /\ LET r == ChunkTextCall(chunker.text, chunker.cfg, chunker.page_number,
                              chunker.metadata)
       IN  chunker' = [chunker EXCEPT !.pc = "chunk_text_again",
                                      !.metadata = r.metadata,
                                      !.repeat = r.chunks]
    /\ UNCHANGED <<indexing, citation, context, fusion, mmr,
                   query, semantic, keyword, ingestion>>

ChunkByPages ==
    /\ chunker.pc = "ready"
    /\ \E pages \in SeqsUpTo(PageTexts, MaxPages) :
          chunker' = [chunker EXCEPT !.pc = "chunk_by_pages", !.pages = pages,
                                     !.chunks = chunk_by_pages(pages, chunker.cfg)]
    /\ UNCHANGED <<indexing, citation, context, fusion, mmr,
                   query, semantic, keyword, ingestion>>

NextChunk == Construct \/ ChunkText \/ ChunkTextAgain \/ ChunkByPages

SpecChunk == InitChunk /\ [][NextChunk]_vars

\* The concatenation of the contents of the chunks, in list order, as
\* test_total_content_preserved joins them
RECURSIVE ConcatContents(_)
ConcatContents(chunks) ==
    IF chunks = <<>> THEN <<>>
    ELSE Head(chunks).content \o ConcatContents(Tail(chunks))

\* C3: for a non-empty text chunked with overlapTokens = 0 (any targetTokens,
\* any minTokens), the contents of the emitted segments concatenated in index
\* order contain every sentence of the text, in order, none missing.
C3_ZeroOverlapCoverage ==
    (chunker.pc = "chunk_text" /\ chunker.cfg.chunk_overlap = 0
        /\ chunker.text # <<>>) =>
        LET all == ConcatContents(chunker.chunks)
        IN  /\ \A k \in 1..Len(chunker.text) : k \in Range(all)
            /\ \A a, b \in 1..Len(all) : a < b => all[a] <= all[b]

\* C4: every segment the Chunker emits has startChar >= 0, endChar > startChar
\* and a recorded tokenCount > 0.
C4_ChunkInvariants ==
    chunker.pc \in {"chunk_text", "chunk_by_pages"} =>
        \A k \in 1..Len(chunker.chunks) :
            /\ chunker.chunks[k].start_char >= 0
            /\ chunker.chunks[k].end_char > chunker.chunks[k].start_char
            /\ chunker.chunks[k].token_count > 0

\* C4 witness: a text chunked with a positive overlap into three segments,
\* the second and third seeded with an overlap sentence.
C4_Witness ==
    /\ chunker.pc = "chunk_text"
    /\ chunker.cfg.chunk_overlap > 0
    /\ Len(chunker.chunks) >= 3
    /\ \A k \in 2..Len(chunker.chunks) : Len(chunker.chunks[k].content) >= 2

\* C5: the index values of the N segments chunk_text returns are exactly
\* 0..N-1 in emission order, and so are those of the segments chunk_by_pages
\* returns, in page order, empty pages skipped.
C5_IndexContiguity ==
    chunker.pc \in {"chunk_text", "chunk_by_pages"} =>
        \A k \in 1..Len(chunker.chunks) : chunker.chunks[k].chunk_index = k - 1

\* C5 witness: three pages, the middle one empty, the first and the last
\* each cut into two segments.
C5_Witness ==
    /\ chunker.pc = "chunk_by_pages"
    /\ Len(chunker.pages) = 3
    /\ chunker.pages[2] = <<>>
    /\ Len(chunker.chunks) = 4
    /\ chunker.chunks[2].page_number = 1
    /\ chunker.chunks[3].page_number = 3

\* C6: with overlapTokens = 0 and two or more segments emitted, every
\* segment's startChar is >= the previous segment's endChar.
C6_ZeroOverlapOffsetsOrdered ==
    (chunker.pc = "chunk_text" /\ chunker.cfg.chunk_overlap = 0
        /\ Len(chunker.chunks) >= 2) =>
        \A k \in 1..(Len(chunker.chunks) - 1) :
            chunker.chunks[k + 1].start_char >= chunker.chunks[k].end_char

(***************************************************************************)
(* FusionRanker (HybridRetriever).                                          *)
(*                                                                          *)
(* A fused score is a sum of reciprocals, kept exact as a fraction          *)
(* <<numerator, denominator>> with a positive denominator.  A retrieval     *)
(* result is identified by its chunk id: fusion reads nothing else of it.   *)
(* Both retrievers return every chunk at most once (the keyword retriever   *)
(* ranks the indices of the candidate rows, the semantic retriever resolves *)
(* vector ids, one per chunk), and at most retrieval_k = 2 * top_k results. *)
(***************************************************************************)
MaxSegments == 3
MaxTopK == 2

\* settings.rrf_k values exercised (the default is 60)
RrfKs == {1, 60}

RatAdd(a, b) == <<a[1] * b[2] + b[1] * a[2], a[2] * b[2]>>

RatLess(a, b) == a[1] * b[2] < b[1] * a[2]

RatEq(a, b) == a[1] * b[2] = b[1] * a[2]

IsInjective(s) == \A a, b \in 1..Len(s) : a # b => s[a] # s[b]

\* The result lists a retriever can return when asked for n results
RetrieverResults(n) ==
    {r \in SeqsUpTo(1..MaxSegments, Min(n, MaxSegments)) : IsInjective(r)}

\* A faulty variant of RrfScore: the "+ 1" left out, i.e. 1 / (rrf_k + rank).
RrfScore_RankOffByOne(rrf_k, rank) == <<1, rrf_k + rank>>

\* score = 1.0 / (self.rrf_k + rank + 1), rank counted from 0
RrfScore(rrf_k, rank) == <<1, rrf_k + rank + 1>>

\* A faulty variant of KeywordAccumulate: "=" in place of "+=".
KeywordAccumulate_Overwrite(old, score) == score

\* combined_scores[chunk_id] += score
KeywordAccumulate(old, score) == RatAdd(old, score)

\* Position of chunk_id among the keys of combined_scores, 0 if absent.
\* combined_scores is a dict: a sequence of items in insertion order.
KeyPos(combined_scores, chunk_id) ==
    IF \E p \in 1..Len(combined_scores) : combined_scores[p].chunk = chunk_id
    THEN CHOOSE p \in 1..Len(combined_scores) : combined_scores[p].chunk = chunk_id
    ELSE 0

\* The loop over semantic_results (hybrid_retriever.py:55-59): the score is
\* assigned, a key already present keeps its place.
RECURSIVE SemanticLoop(_, _, _, _)
SemanticLoop(semantic_results, rrf_k, n, combined_scores) ==
    IF n > Len(semantic_results) THEN combined_scores
    ELSE LET chunk_id == semantic_results[n]
             score == RrfScore(rrf_k, n - 1)
             p == KeyPos(combined_scores, chunk_id)
         IN  SemanticLoop(semantic_results, rrf_k, n + 1,
                 IF p = 0
                 THEN Append(combined_scores, [chunk |-> chunk_id, score |-> score])
                 ELSE [combined_scores EXCEPT ![p].score = score])

\* The loop over keyword_results (hybrid_retriever.py:62-70)
RECURSIVE KeywordLoop(_, _, _, _)
KeywordLoop(keyword_results, rrf_k, n, combined_scores) ==
    IF n > Len(keyword_results) THEN combined_scores
    ELSE LET chunk_id == keyword_results[n]
             score == RrfScore(rrf_k, n - 1)
             p == KeyPos(combined_scores, chunk_id)
         IN  KeywordLoop(keyword_results, rrf_k, n + 1,
                 IF p = 0
                 THEN Append(combined_scores, [chunk |-> chunk_id, score |-> score])
                 ELSE [combined_scores EXCEPT
                          ![p].score = KeywordAccumulate(@, score)])

\* A faulty variant of InsertDesc: item goes before the items of equal score,
\* so that ties come out in reverse insertion order.
RECURSIVE InsertDesc_BeforeEqual(_, _)
InsertDesc_BeforeEqual(sorted, item) ==
    IF sorted = <<>> THEN <<item>>
    ELSE IF ~RatLess(item.score, Head(sorted).score)
         THEN <<item>> \o sorted
         ELSE <<Head(sorted)>> \o InsertDesc_BeforeEqual(Tail(sorted), item)

\* One insertion of a stable descending sort: item goes after every item
\* whose score is not lower than its own.
RECURSIVE InsertDesc(_, _)
InsertDesc(sorted, item) ==
    IF sorted = <<>> THEN <<item>>
    ELSE IF RatLess(Head(sorted).score, item.score)
         THEN <<item>> \o sorted
         ELSE <<Head(sorted)>> \o InsertDesc(Tail(sorted), item)

\* sorted(combined_scores.items(), key=lambda x: x[1], reverse=True): stable,
\* items of equal score keep their insertion order.
RECURSIVE SortByScoreDesc(_, _)
SortByScoreDesc(items, n) ==
    IF n = 0 THEN <<>>
    ELSE InsertDesc(SortByScoreDesc(items, n - 1), items[n])

\* HybridRetriever._reciprocal_rank_fusion
reciprocal_rank_fusion(semantic_results, keyword_results, rrf_k) ==
    LET combined_scores ==
            KeywordLoop(keyword_results, rrf_k, 1,
                        SemanticLoop(semantic_results, rrf_k, 1, <<>>))
        sorted_ids == SortByScoreDesc(combined_scores, Len(combined_scores))
    IN  [n \in 1..Len(sorted_ids) |->
            [chunk |-> sorted_ids[n].chunk, score |-> sorted_ids[n].score,
             method |-> "hybrid"]]

\* A faulty variant of HybridExcept: the failure is swallowed and the results
\* are fused from the lists at hand.
HybridExcept_Swallow(state) ==
    LET fused_results == reciprocal_rank_fusion(state.semantic_results,
                             state.keyword_results, state.rrf_k)
    IN  [state EXCEPT !.pc = "done",
                      !.fusion_runs = @ + 1,
                      !.fused_results = fused_results,
                      !.final_results = Take(fused_results, state.top_k)]

\* "except Exception as e: logger.error(...); raise"
HybridExcept(state) == [state EXCEPT !.pc = "raised"]

InitFuse ==
    /\ indexing = Idle
    /\ \E rrf_k \in RrfKs :
          fusion = [pc               |-> "ready",
                    rrf_k            |-> rrf_k,
                    top_k            |-> 0,
                    semantic         |-> "pending",
                    keyword          |-> "pending",
                    semantic_results |-> <<>>,
                    keyword_results  |-> <<>>,
                    fusion_runs      |-> 0,
                    fused_results    |-> <<>>,
                    final_results    |-> <<>>]
    /\ citation = Idle /\ context = Idle /\ chunker = Idle /\ mmr = Idle
    /\ query = Idle /\ semantic = Idle /\ keyword = Idle /\ ingestion = Idle

\* HybridRetriever.retrieve up to "await self.semantic_retriever.retrieve":
\* both retrievers are asked for top_k * 2 results.
HybridRetrieve ==
    /\ fusion.pc = "ready"
    /\ \E top_k \in 1..MaxTopK :
          fusion' = [fusion EXCEPT !.pc = "semantic", !.top_k = top_k]
    /\ UNCHANGED <<indexing, citation, context, chunker, mmr,
                   query, semantic, keyword, ingestion>>

\* The semantic retriever returns; up to "await self.keyword_retriever.retrieve"
HybridSemanticReturns ==
    /\ fusion.pc = "semantic"
    /\ \E semantic_results \in RetrieverResults(fusion.top_k * 2) :
          fusion' = [fusion EXCEPT !.pc = "keyword",
                                   !.semantic = "returned",
                                   !.semantic_results = semantic_results]
    /\ UNCHANGED <<indexing, citation, context, chunker, mmr,
                   query, semantic, keyword, ingestion>>

\* The semantic retriever raises
HybridSemanticRaises ==
    /\ fusion.pc = "semantic"
    /\ fusion' = HybridExcept([fusion EXCEPT !.semantic = "raised"])
    /\ UNCHANGED <<indexing, citation, context, chunker, mmr,
                   query, semantic, keyword, ingestion>>

\* The keyword retriever returns: the lists are fused and the first top_k
\* fused results returned.
HybridKeywordReturns ==
    /\ fusion.pc = "keyword"
    /\ \E keyword_results \in RetrieverResults(fusion.top_k * 2) :
          LET fused_results == reciprocal_rank_fusion(fusion.semantic_results,
                                   keyword_results, fusion.rrf_k)
          IN  fusion' = [fusion EXCEPT
                  !.pc = "done",
                  !.keyword = "returned",
                  !.keyword_results = keyword_results,
                  !.fusion_runs = @ + 1,
                  !.fused_results = fused_results,
                  !.final_results = Take(fused_results, fusion.top_k)]
    /\ UNCHANGED <<indexing, citation, context, chunker, mmr,
                   query, semantic, keyword, ingestion>>

\* The keyword retriever raises
HybridKeywordRaises ==
    /\ fusion.pc = "keyword"
    /\ fusion' = HybridExcept([fusion EXCEPT !.keyword = "raised"])
    /\ UNCHANGED <<indexing, citation, context, chunker, mmr,
                   query, semantic, keyword, ingestion>>

NextFuse ==
    \/ HybridRetrieve
    \/ HybridSemanticReturns
    \/ HybridSemanticRaises
    \/ HybridKeywordReturns
    \/ HybridKeywordRaises

SpecFuse == InitFuse /\ [][NextFuse]_vars

\* The value C7 states for a Segment and one list: the sum of
\* 1 / (rrf_k + rank + 1) over the entries of results[n..] that hold
\* chunk_id, rank being the 0-based position in results.
RECURSIVE ReciprocalSum(_, _, _, _)
ReciprocalSum(results, chunk_id, rrf_k, n) ==
    IF n > Len(results) THEN <<0, 1>>
    ELSE IF results[n] = chunk_id
         THEN RatAdd(<<1, rrf_k + (n - 1) + 1>>,
                     ReciprocalSum(results, chunk_id, rrf_k, n + 1))
         ELSE ReciprocalSum(results, chunk_id, rrf_k, n + 1)

\* C7: the fused score of each distinct Segment is the sum of
\* 1/(rrfK + rank + 1) over its entries in the two lists; the output holds
\* each distinct Segment of either list once, sorted by fused score
\* descending, truncated to topK, every entry tagged "hybrid".
C7_FusionScores ==
    fusion.pc = "done" =>
        LET f == fusion.fused_results
        IN  /\ \A n \in 1..Len(f) :
                  /\ RatEq(f[n].score,
                           RatAdd(ReciprocalSum(fusion.semantic_results, f[n].chunk,
                                                fusion.rrf_k, 1),
                                  ReciprocalSum(fusion.keyword_results, f[n].chunk,
                                                fusion.rrf_k, 1)))
                  /\ f[n].method = "hybrid"
            /\ {f[n].chunk : n \in 1..Len(f)} =
                   Range(fusion.semantic_results) \cup Range(fusion.keyword_results)
            /\ \A a, b \in 1..Len(f) : a # b => f[a].chunk # f[b].chunk
            /\ \A n \in 1..(Len(f) - 1) : ~RatLess(f[n].score, f[n + 1].score)
            /\ Len(fusion.final_results) = Min(fusion.top_k, Len(f))
            /\ \A n \in 1..Len(fusion.final_results) : fusion.final_results[n] = f[n]

\* C7 witness: a Segment in both lists at different ranks, a Segment in one
\* list only, and more fused Segments than topK.
C7_Witness ==
    /\ fusion.pc = "done"
    /\ Len(fusion.fused_results) > fusion.top_k
    /\ \E a \in 1..Len(fusion.semantic_results), b \in 1..Len(fusion.keyword_results) :
          a # b /\ fusion.semantic_results[a] = fusion.keyword_results[b]
    /\ Range(fusion.keyword_results) \ Range(fusion.semantic_results) # {}
    /\ Range(fusion.semantic_results) \ Range(fusion.keyword_results) # {}

\* C8: a Segment ranked first in both lists gets fused score 2/(rrfK + 1),
\* strictly higher than the fused score of every other Segment, so it is
\* first in the fused output.
C8_TopInBothIsFirst ==
    (fusion.pc = "done" /\ fusion.semantic_results # <<>>
        /\ fusion.keyword_results # <<>>
        /\ fusion.semantic_results[1] = fusion.keyword_results[1]) =>
        LET f == fusion.fused_results
        IN  /\ f[1].chunk = fusion.semantic_results[1]
            /\ RatEq(f[1].score, <<2, fusion.rrf_k + 1>>)
            /\ \A n \in 2..Len(f) : RatLess(f[n].score, f[1].score)
            /\ fusion.final_results[1].chunk = fusion.semantic_results[1]

\* C8 witness: rrf_k = 60, the same Segment first in both lists, and another
\* Segment second in both lists.
C8_Witness ==
    /\ fusion.pc = "done"
    /\ fusion.rrf_k = 60
    /\ Len(fusion.semantic_results) >= 2 /\ Len(fusion.keyword_results) >= 2
    /\ fusion.semantic_results[1] = fusion.keyword_results[1]
    /\ fusion.semantic_results[2] = fusion.keyword_results[2]
    /\ RatEq(fusion.fused_results[1].score, <<2, 61>>)

(***************************************************************************)
(* DiversitySelector (MMRSelector).                                         *)
(*                                                                          *)
(* A hit is a RetrievalResult: results[n] holds chunk n and a relevance     *)
(* score, an integer number of ScoreDen-ths.  lambda_param is               *)
(* lambda_num / LambdaDen.  An embedding is a sequence of integers; the     *)
(* field embedding of a hit is the vector the vector index stores for the   *)
(* hit's chunk (the RetrievalResult itself does not carry it).  The MMR     *)
(* score is kept as an integer scaled by LambdaDen * SimScale * ScoreDen.   *)
(***************************************************************************)
MaxMMRHits == 3
MaxScore == 3

LambdaDen == 2

SimScale == 100

ScoreDen == 4

\* The vectors stored for chunks: two orthogonal directions
Embeddings == {<<1, 0>>, <<0, 1>>}

\* The hit lists: hit n holds chunk n
MMRHitLists ==
    {[n \in 1..Len(h) |-> [chunk |-> n, score |-> h[n][1], embedding |-> h[n][2]]] :
        h \in SeqsUpTo((1..MaxScore) \X Embeddings, MaxMMRHits)}

None == [chunk |-> 0, score |-> 0, embedding |-> <<>>]

\* MMRSelector._get_chunk_embedding: always the empty list
get_chunk_embedding(result) == <<>>

RECURSIVE DotProduct(_, _)
DotProduct(vec1, vec2) ==
    IF vec1 = <<>> \/ vec2 = <<>> THEN 0
    ELSE Head(vec1) * Head(vec2) + DotProduct(Tail(vec1), Tail(vec2))

\* Largest r with r * r <= n
ISqrt(n) == CHOOSE r \in 0..n : r * r <= n /\ (r + 1) * (r + 1) > n

\* cosine_similarity, times SimScale and rounded down; 0 when a magnitude is
\* 0.  (It raises ValueError for vectors of different lengths; every vector
\* here comes from get_chunk_embedding.)
cosine_similarity(vec1, vec2) ==
    LET m1 == DotProduct(vec1, vec1)
        m2 == DotProduct(vec2, vec2)
    IN  IF m1 = 0 \/ m2 = 0 THEN 0
        ELSE (SimScale * DotProduct(vec1, vec2)) \div ISqrt(m1 * m2)

\* The loop over selected at mmr_selector.py:76-81
RECURSIVE MaxSimilarity(_, _, _, _)
MaxSimilarity(chunk_embedding, selected, n, max_similarity) ==
    IF n > Len(selected) THEN max_similarity
    ELSE LET selected_embedding == get_chunk_embedding(selected[n])
         IN  MaxSimilarity(chunk_embedding, selected, n + 1,
                 IF selected_embedding # <<>>
                 THEN Max(max_similarity,
                          cosine_similarity(chunk_embedding, selected_embedding))
                 ELSE max_similarity)

\* lambda * relevance - (1 - lambda) * max_similarity, times
\* LambdaDen * SimScale * ScoreDen
MMRScore(lambda_num, relevance, max_similarity) ==
    lambda_num * relevance * SimScale
        - (LambdaDen - lambda_num) * max_similarity * ScoreDen

\* The loop over remaining at mmr_selector.py:62-91: a candidate without an
\* embedding is skipped; best is None until a candidate has been scored
\* (any score beats the initial -inf).
RECURSIVE CandidateLoop(_, _, _, _, _, _)
CandidateLoop(remaining, selected, lambda_num, n, best_score, best_result) ==
    IF n > Len(remaining) THEN best_result
    ELSE LET result == remaining[n]
             chunk_embedding == get_chunk_embedding(result)
         IN  IF chunk_embedding = <<>>
             THEN CandidateLoop(remaining, selected, lambda_num, n + 1,
                                best_score, best_result)
             ELSE LET mmr_score == MMRScore(lambda_num, result.score,
                                       MaxSimilarity(chunk_embedding, selected, 1, 0))
                  IN  IF best_result = None \/ mmr_score > best_score
                      THEN CandidateLoop(remaining, selected, lambda_num, n + 1,
                                         mmr_score, result)
                      ELSE CandidateLoop(remaining, selected, lambda_num, n + 1,
                                         best_score, best_result)

\* max(remaining, key=lambda r: r.score): the first hit of the highest score
MaxByScore(remaining) ==
    LET p == CHOOSE p \in 1..Len(remaining) :
                 /\ \A q \in 1..Len(remaining) : remaining[q].score <= remaining[p].score
                 /\ \A q \in 1..(p - 1) : remaining[q].score < remaining[p].score
    IN  remaining[p]

\* remaining.remove(best_result)
RemoveResult(remaining, best_result) ==
    SelectSeq(remaining, LAMBDA r : r # best_result)

\* The while loop at mmr_selector.py:54-97
RECURSIVE SelectLoop(_, _, _, _)
SelectLoop(selected, remaining, lambda_num, top_k) ==
    IF Len(selected) < top_k /\ remaining # <<>>
    THEN IF selected = <<>>
         THEN LET best_result == MaxByScore(remaining)
              IN  SelectLoop(Append(selected, best_result),
                             RemoveResult(remaining, best_result), lambda_num, top_k)
         ELSE LET best_result == CandidateLoop(remaining, selected, lambda_num,
                                               1, 0, None)
              IN  IF best_result # None
                  THEN SelectLoop(Append(selected, best_result),
                                  RemoveResult(remaining, best_result),
                                  lambda_num, top_k)
                  ELSE selected
    ELSE selected

\* MMRSelector.select
select(results, lambda_num, top_k) ==
    IF results = <<>> THEN <<>>
    ELSE IF Len(results) <= top_k THEN results
    ELSE SelectLoop(<<>>, results, lambda_num, top_k)

InitMMR ==
    /\ indexing = Idle
    /\ \E lambda_num \in 0..LambdaDen :
          mmr = [pc |-> "ready", lambda_num |-> lambda_num]
    /\ citation = Idle /\ context = Idle /\ chunker = Idle /\ fusion = Idle
    /\ query = Idle /\ semantic = Idle /\ keyword = Idle /\ ingestion = Idle

MMRSelect ==
    /\ mmr.pc = "ready"
    /\ \E results \in MMRHitLists, top_k \in 1..MaxTopK :
          mmr' = [pc |-> "done", lambda_num |-> mmr.lambda_num,
                  results |-> results, top_k |-> top_k,
                  selected |-> select(results, mmr.lambda_num, top_k)]
    /\ UNCHANGED <<indexing, citation, context, chunker, fusion,
                   query, semantic, keyword, ingestion>>

NextMMR == MMRSelect

SpecMMR == InitMMR /\ [][NextMMR]_vars

\* C9: for every hit list and topK >= 1, select returns exactly
\* min(topK, len(hits)) distinct hits taken from the input, the input
\* unchanged when len(hits) <= topK.
C9_SelectSize ==
    mmr.pc = "done" =>
        /\ Len(mmr.selected) = Min(mmr.top_k, Len(mmr.results))
        /\ IsInjective(mmr.selected)
        /\ Range(mmr.selected) \subseteq Range(mmr.results)
        /\ (Len(mmr.results) <= mmr.top_k => mmr.selected = mmr.results)

\* The ranking C10 states: the scores of the k highest-scoring hits, in
\* descending order; scores is a set of <<position, score>> pairs.
RECURSIVE TopScores(_, _)
TopScores(scores, k) ==
    IF k = 0 \/ scores = {} THEN <<>>
    ELSE LET p == CHOOSE p \in scores : \A q \in scores : q[2] <= p[2]
         IN  <<p[2]>> \o TopScores(scores \ {p}, k - 1)

\* C10: with lambda = 1.0 and len(hits) > topK, select returns the topK hits
\* by descending score, in that order (hits of equal score may be exchanged).
C10_LambdaOneIsRelevanceRanking ==
    (mmr.pc = "done" /\ mmr.lambda_num = LambdaDen
        /\ Len(mmr.results) > mmr.top_k) =>
        [n \in 1..Len(mmr.selected) |-> mmr.selected[n].score] =
            TopScores({<<n, mmr.results[n].score>> : n \in 1..Len(mmr.results)},
                      mmr.top_k)

\* The value C11 states for a candidate: lambda * relevance -
\* (1 - lambda) * maxSimilarity, maxSimilarity being the highest cosine
\* similarity of the candidate's stored vector to that of a hit of chosen
\* (0 at least).
RECURSIVE StoredMaxSimilarity(_, _)
StoredMaxSimilarity(hit, chosen) ==
    IF chosen = <<>> THEN 0
    ELSE Max(cosine_similarity(hit.embedding, Head(chosen).embedding),
             StoredMaxSimilarity(hit, Tail(chosen)))

StoredMMRScore(lambda_num, hit, chosen) ==
    MMRScore(lambda_num, hit.score, StoredMaxSimilarity(hit, chosen))

\* Position of the hit of chunk c in a list of hits, 0 if absent
HitPos(hits, c) ==
    IF \E p \in 1..Len(hits) : hits[p].chunk = c
    THEN CHOOSE p \in 1..Len(hits) : hits[p].chunk = c
    ELSE 0

\* C11: after the first pick, each further pick of select is the unselected
\* candidate maximizing lambda * relevance - (1 - lambda) * maxSimilarity to
\* the hits already selected; hence with lambda = 0.5, topK >= 2 and two
\* near-duplicate top candidates (hits 1 and 2, same stored vector, the two
\* highest scores), a distinct candidate d of lower relevance whose MMR score
\* beats the second duplicate's is selected, and before the second duplicate.
C11_MMRStep ==
    (mmr.pc = "done" /\ Len(mmr.results) > mmr.top_k) =>
        /\ \A n \in 2..Len(mmr.selected) :
              \A c \in Range(mmr.results) \ Range(Take(mmr.selected, n - 1)) :
                  StoredMMRScore(mmr.lambda_num, c, Take(mmr.selected, n - 1))
                      <= StoredMMRScore(mmr.lambda_num, mmr.selected[n],
                                        Take(mmr.selected, n - 1))
        /\ (/\ 2 * mmr.lambda_num = LambdaDen
            /\ mmr.top_k >= 2
            /\ mmr.results[1].embedding = mmr.results[2].embedding
            /\ mmr.results[1].score >= mmr.results[2].score
            /\ \A n \in 3..Len(mmr.results) :
                  /\ mmr.results[n].score < mmr.results[2].score
                  /\ mmr.results[n].embedding # mmr.results[1].embedding
                  /\ StoredMMRScore(mmr.lambda_num, mmr.results[n], <<mmr.results[1]>>)
                       > StoredMMRScore(mmr.lambda_num, mmr.results[2],
                                        <<mmr.results[1]>>))
           => \E d \in 3..Len(mmr.results) :
                 /\ HitPos(mmr.selected, d) # 0
                 /\ (HitPos(mmr.selected, 2) = 0
                     \/ HitPos(mmr.selected, d) < HitPos(mmr.selected, 2))

(***************************************************************************)
(* QueryService.process_query.                                              *)
(*                                                                          *)
(* The coroutine is suspended at its awaits (retriever.retrieve,            *)
(* llm_provider.generate, _log_query); an action is the code that runs from *)
(* one await to the next.  A retrieved hit carries what the later stages    *)
(* read from it: the chunk and its id, the score, the vector stored for the *)
(* chunk, and the word counts of its content and file name.  An answer      *)
(* string is its literal text where the code fixes it, and the sequence of  *)
(* its [Source N] markers where the generator produced it.                  *)
(***************************************************************************)
MaxQueryHits == 3

QueryScores == {1, 2}

\* settings.rag_max_context_tokens
rag_max_context_tokens == 6000

\* Words of a retrieved chunk's content: a short chunk, and one whose block
\* alone is estimated above rag_max_context_tokens
QueryContentWords == {2, 5000}

RetrievedLists ==
    {[n \in 1..Len(h) |-> [chunk_id       |-> n,
                           chunk          |-> n,
                           score          |-> h[n][1],
                           embedding      |-> <<1, 0>>,
                           content_words  |-> h[n][2],
                           filename_words |-> 1]] :
        h \in SeqsUpTo(QueryScores \X QueryContentWords, MaxQueryHits)}

\* The texts llm_provider.generate may return
GeneratedAnswers == {<<>>, <<1>>, <<2, 1>>, <<0>>, <<NoMarker>>}

Generated(answer_text) == [literal |-> "", markers |-> answer_text]

NoAnswer == [literal |-> "", markers |-> <<>>]

NoResponse ==
    [answer |-> NoAnswer, citations |-> <<>>, used_chunks |-> <<>>,
     chunks_retrieved |-> 0, chunks_used |-> 0]

\* A faulty variant of NotRetrieved: an empty retrieval is not detected
NotRetrieved_Never(retrieved_chunks) == FALSE

\* "if not retrieved_chunks"
NotRetrieved(retrieved_chunks) == retrieved_chunks = <<>>

create_no_results_response ==
    [answer           |-> [literal |-> "I don't have enough information to answer this question based on the provided documents.",
                           markers |-> <<>>],
     citations        |-> <<>>,
     used_chunks      |-> <<>>,
     chunks_retrieved |-> 0,
     chunks_used      |-> 0]

\* used_chunks of the response: a ChunkUsed per selected hit
UsedChunks(selected_chunks) ==
    [n \in 1..Len(selected_chunks) |->
        [chunk_id        |-> selected_chunks[n].chunk_id,
         relevance_score |-> selected_chunks[n].score]]

InitQuery ==
    /\ indexing = Idle
    /\ \E top_k \in 1..MaxTopK, mmr_lambda \in 0..LambdaDen :
          query = [pc               |-> "ready",
                   top_k            |-> top_k,
                   mmr_lambda       |-> mmr_lambda,
                   retrieval        |-> "pending",
                   retrieved_chunks |-> <<>>,
                   selected_chunks  |-> <<>>,
                   context_parts    |-> <<>>,
                   select_calls     |-> 0,
                   generate_calls   |-> 0,
                   response         |-> NoResponse,
                   logged           |-> FALSE]
    /\ citation = Idle /\ context = Idle /\ chunker = Idle /\ fusion = Idle
    /\ mmr = Idle /\ semantic = Idle /\ keyword = Idle /\ ingestion = Idle

\* process_query up to "await self.retriever.retrieve(...)"
QueryRetrieve ==
    /\ query.pc = "ready"
    /\ query' = [query EXCEPT !.pc = "retrieving"]
    /\ UNCHANGED <<indexing, citation, context, chunker, fusion, mmr,
                   semantic, keyword, ingestion>>

\* retrieve returns: the empty-result return, or steps 2 and 3 up to
\* "await self.llm_provider.generate(...)"
QueryRetrieveReturns ==
    /\ query.pc = "retrieving"
    /\ \E retrieved_chunks \in RetrievedLists :
          IF NotRetrieved(retrieved_chunks)
          THEN query' = [query EXCEPT !.pc = "returned",
                                      !.retrieval = "returned",
                                      !.retrieved_chunks = retrieved_chunks,
                                      !.response = create_no_results_response]
          ELSE LET selected_chunks == Take(retrieved_chunks, query.top_k)
               IN  query' = [query EXCEPT
                       !.pc = "generating",
                       !.retrieval = "returned",
                       !.retrieved_chunks = retrieved_chunks,
                       !.selected_chunks = selected_chunks,
                       !.context_parts = prepare_context(selected_chunks,
                                                         rag_max_context_tokens),
                       !.generate_calls = @ + 1]
    /\ UNCHANGED <<indexing, citation, context, chunker, fusion, mmr,
                   semantic, keyword, ingestion>>

\* retrieve raises: "except Exception: ... raise"
QueryRetrieveRaises ==
    /\ query.pc = "retrieving"
    /\ query' = [query EXCEPT !.pc = "raised", !.retrieval = "raised"]
    /\ UNCHANGED <<indexing, citation, context, chunker, fusion, mmr,
                   semantic, keyword, ingestion>>

\* generate returns: steps 5 and 6 up to "await self._log_query(...)"
QueryGenerateReturns ==
    /\ query.pc = "generating"
    /\ \E answer_text \in GeneratedAnswers :
          query' = [query EXCEPT
              !.pc = "logging",
              !.response =
                  [answer           |-> Generated(answer_text),
                   citations        |-> extract_citations(
                                            answer_text,
                                            query.selected_chunks).citations,
                   used_chunks      |-> UsedChunks(query.selected_chunks),
                   chunks_retrieved |-> Len(query.retrieved_chunks),
                   chunks_used      |-> Len(query.selected_chunks)]]
    /\ UNCHANGED <<indexing, citation, context, chunker, fusion, mmr,
                   semantic, keyword, ingestion>>

\* generate raises: "except Exception: ... raise"
QueryGenerateRaises ==
    /\ query.pc = "generating"
    /\ query' = [query EXCEPT !.pc = "raised"]
    /\ UNCHANGED <<indexing, citation, context, chunker, fusion, mmr,
                   semantic, keyword, ingestion>>

\* _log_query commits the Query row, or fails and rolls back without
\* raising; process_query returns the response
QueryLog ==
    /\ query.pc = "logging"
    /\ \E committed \in BOOLEAN :
          query' = [query EXCEPT !.pc = "returned", !.logged = committed]
    /\ UNCHANGED <<indexing, citation, context, chunker, fusion, mmr,
                   semantic, keyword, ingestion>>

NextQuery ==
    \/ QueryRetrieve
    \/ QueryRetrieveReturns
    \/ QueryRetrieveRaises
    \/ QueryGenerateReturns
    \/ QueryGenerateRaises
    \/ QueryLog

SpecQuery == InitQuery /\ [][NextQuery]_vars

\* C12: whenever retrieval returns zero hits, process_query returns (does
\* not raise) a complete response whose answer is the insufficient-
\* information text and whose citations and used_chunks are empty, and the
\* answer generator is never invoked.
C12_EmptyResultShortCircuit ==
    (query.pc # "idle" /\ query.retrieval = "returned"
        /\ query.retrieved_chunks = <<>>) =>
        /\ query.pc = "returned"
        /\ query.response.answer.literal =
              "I don't have enough information to answer this question based on the provided documents."
        /\ query.response.citations = <<>>
        /\ query.response.used_chunks = <<>>
        /\ query.response.chunks_retrieved = 0
        /\ query.response.chunks_used = 0
        /\ query.generate_calls = 0

C12_Witness ==
    /\ query.pc = "returned"
    /\ query.retrieval = "returned"
    /\ query.retrieved_chunks = <<>>
    /\ query.generate_calls = 0

\* C18: in every query that retrieves at least one hit, the hits handed to
\* _prepare_context are the output of MMRSelector.select applied, with the
\* request's lambda and topK, to the retrieved hits: select has been invoked
\* before the context is assembled.
C18_DiversityBeforeContext ==
    (query.pc \in {"generating", "logging", "returned"}
        /\ query.retrieved_chunks # <<>>) =>
        /\ query.select_calls >= 1
        /\ query.selected_chunks =
              select(query.retrieved_chunks, query.mmr_lambda, query.top_k)

(***************************************************************************)
(* VectorRanker (SemanticRetriever.retrieve).                               *)
(*                                                                          *)
(* Uploads are numbered 1..uploads; upload u owns the namespace             *)
(* "upload:u".  upload_id = NoUpload is the omitted scope.  What the vector *)
(* index does for a namespace is an input: the similarity search raises, or *)
(* it returns the namespace's best top_k matches in descending score order. *)
(* A match is the vector id, <<namespace, position>>, and its score.  The   *)
(* only await is the query embedding; the rest runs to the return.          *)
(***************************************************************************)
MaxNamespaces == 3
MaxNsHits == 2

NoUpload == 0

SemanticScores == {1, 2}

IsDescending(scores) ==
    \A a, b \in 1..Len(scores) : a < b => scores[a] >= scores[b]

\* The outcomes of pinecone_store.similarity_search for a namespace: it
\* raises, or the scores of the namespace's best vectors are these
NamespaceOutcomes ==
    {[raises |-> TRUE, scores |-> <<>>]} \cup
    {[raises |-> FALSE, scores |-> sc] :
        sc \in {x \in SeqsUpTo(SemanticScores, MaxNsHits) : IsDescending(x)}}

\* similarity_search(query_vector, top_k, namespace) when it returns
similarity_search(index, ns, top_k) ==
    Take([k \in 1..Len(index[ns].scores) |->
             [id |-> <<ns, k>>, score |-> index[ns].scores[k]]], top_k)

\* A faulty variant of SkipNamespace: the failure of one namespace ends the
\* call.
SkipNamespace_Raise(acc) == [acc EXCEPT !.raised = TRUE]

\* "except Exception: logger.warning(...); continue"
SkipNamespace(acc) == acc

\* The loop "for upload in uploads" from upload ns on; acc holds all_matches,
\* the searches made so far and whether an exception left the loop.
RECURSIVE FanOutLoop(_, _, _, _, _)
FanOutLoop(index, uploads, ns, top_k, acc) ==
    IF ns > uploads \/ acc.raised THEN acc
    ELSE LET searched == [acc EXCEPT !.queried =
                                Append(@, [namespace |-> ns, top_k |-> top_k])]
         IN  FanOutLoop(index, uploads, ns + 1, top_k,
                 IF index[ns].raises
                 THEN SkipNamespace(searched)
                 ELSE [searched EXCEPT !.all_matches =
                          @ \o similarity_search(index, ns, top_k)])

\* A faulty variant of SortMatches: the combined list is left as it is.
SortMatches_Unsorted(all_matches) == all_matches

RECURSIVE InsertMatch(_, _)
InsertMatch(sorted, match) ==
    IF sorted = <<>> THEN <<match>>
    ELSE IF Head(sorted).score >= match.score
         THEN <<Head(sorted)>> \o InsertMatch(Tail(sorted), match)
         ELSE <<match>> \o sorted

RECURSIVE SortMatchesFrom(_, _)
SortMatchesFrom(sorted, rest) ==
    IF rest = <<>> THEN sorted
    ELSE SortMatchesFrom(InsertMatch(sorted, Head(rest)), Tail(rest))

\* all_matches.sort(key=lambda x: x.get("score", 0.0), reverse=True): stable
SortMatches(all_matches) == SortMatchesFrom(<<>>, all_matches)

\* A faulty variant of ChunkFound: a result is built for every match, whether
\* or not a chunk row carries its id.
ChunkFound_Always(match, deleted) == TRUE

\* "chunk = ...filter(Chunk.embedding_id == match["id"]).first()" and
\* "if chunk": deleted holds the vector ids that no chunk row carries
ChunkFound(match, deleted) == match.id \notin deleted

\* "Fetch chunks from database": a match whose chunk row is gone is dropped
RECURSIVE FetchChunks(_, _)
FetchChunks(matches, deleted) ==
    IF matches = <<>> THEN <<>>
    ELSE LET match == Head(matches)
         IN  (IF ~ChunkFound(match, deleted) THEN <<>>
              ELSE <<[chunk |-> match.id, score |-> match.score,
                      method |-> "semantic"]>>)
             \o FetchChunks(Tail(matches), deleted)

InitSemantic ==
    /\ indexing = Idle
    /\ \E top_k \in 1..MaxTopK, uploads \in 0..MaxNamespaces :
       \E upload_id \in {NoUpload} \cup 1..uploads :
          semantic = [pc          |-> "ready",
                      top_k       |-> top_k,
                      uploads     |-> uploads,
                      upload_id   |-> upload_id,
                      embedded    |-> "pending",
                      index       |-> <<>>,
                      queried     |-> <<>>,
                      all_matches |-> <<>>,
                      matches     |-> <<>>,
                      deleted     |-> {},
                      results     |-> <<>>]
    /\ citation = Idle /\ context = Idle /\ chunker = Idle /\ fusion = Idle
    /\ mmr = Idle /\ query = Idle /\ keyword = Idle /\ ingestion = Idle

\* retrieve up to "await self.embedding_provider.embed_texts([query])"
SemanticRetrieve ==
    /\ semantic.pc = "ready"
    /\ semantic' = [semantic EXCEPT !.pc = "embedding"]
    /\ UNCHANGED <<indexing, citation, context, chunker, fusion, mmr,
                   query, keyword, ingestion>>

\* embed_texts raises: "except Exception: ... raise"
SemanticEmbedRaises ==
    /\ semantic.pc = "embedding"
    /\ semantic' = [semantic EXCEPT !.pc = "raised", !.embedded = "raised"]
    /\ UNCHANGED <<indexing, citation, context, chunker, fusion, mmr,
                   query, keyword, ingestion>>

\* embed_texts returns: the searches, the merge and the chunk look-ups
SemanticEmbedReturns ==
    /\ semantic.pc = "embedding"
    /\ \E index \in [1..semantic.uploads -> NamespaceOutcomes],
          deleted \in SUBSET {<<1, 1>>} :
             IF semantic.upload_id # NoUpload
             THEN LET ns == semantic.upload_id
                      queried == <<[namespace |-> ns, top_k |-> semantic.top_k]>>
                  IN  IF index[ns].raises
                      THEN semantic' = [semantic EXCEPT !.pc = "raised",
                                                        !.embedded = "returned",
                                                        !.index = index,
                                                        !.queried = queried]
                      ELSE LET matches == similarity_search(index, ns,
                                                            semantic.top_k)
                           IN  semantic' = [semantic EXCEPT
                                   !.pc = "returned",
                                   !.embedded = "returned",
                                   !.index = index,
                                   !.queried = queried,
                                   !.matches = matches,
                                   !.deleted = deleted,
                                   !.results = FetchChunks(matches, deleted)]
             ELSE LET acc == FanOutLoop(index, semantic.uploads, 1,
                                        semantic.top_k,
                                        [all_matches |-> <<>>,
                                         queried     |-> <<>>,
                                         raised      |-> FALSE])
                      matches == Take(SortMatches(acc.all_matches),
                                      semantic.top_k)
                  IN  IF acc.raised
                      THEN semantic' = [semantic EXCEPT
                               !.pc = "raised",
                               !.embedded = "returned",
                               !.index = index,
                               !.queried = acc.queried,
                               !.all_matches = acc.all_matches]
                      ELSE semantic' = [semantic EXCEPT
                               !.pc = "returned",
                               !.embedded = "returned",
                               !.index = index,
                               !.queried = acc.queried,
                               !.all_matches = acc.all_matches,
                               !.matches = matches,
                               !.deleted = deleted,
                               !.results = FetchChunks(matches, deleted)]
    /\ UNCHANGED <<indexing, citation, context, chunker, fusion, mmr,
                   query, keyword, ingestion>>

NextSemantic ==
    \/ SemanticRetrieve
    \/ SemanticEmbedRaises
    \/ SemanticEmbedReturns

SpecSemantic == InitSemantic /\ [][NextSemantic]_vars

MatchScores(matches) == [k \in 1..Len(matches) |-> matches[k].score]

\* C13: a failure of the query embedding raises in both modes.  A failing
\* vector-index query makes retrieve raise if and only if upload_id names a
\* single namespace.  With upload_id omitted the call returns whatever
\* subset of namespaces fails: every namespace is searched, a failing one
\* contributes nothing, and every match of every other one is in all_matches.
C13_ErrorPropagation ==
    (semantic.pc \in {"returned", "raised"}) =>
        /\ semantic.embedded = "raised" => semantic.pc = "raised"
        /\ (semantic.embedded = "returned" /\ semantic.upload_id # NoUpload) =>
              (semantic.pc = "raised" <=> semantic.index[semantic.upload_id].raises)
        /\ (semantic.embedded = "returned" /\ semantic.upload_id = NoUpload) =>
              /\ semantic.pc = "returned"
              /\ \A ns \in 1..semantic.uploads :
                    /\ \E q \in 1..Len(semantic.queried) :
                          semantic.queried[q].namespace = ns
                    /\ semantic.index[ns].raises =>
                          \A m \in Range(semantic.all_matches) : m.id[1] # ns
                    /\ ~semantic.index[ns].raises =>
                          \A k \in 1..Min(semantic.top_k,
                                          Len(semantic.index[ns].scores)) :
                             [id |-> <<ns, k>>,
                              score |-> semantic.index[ns].scores[k]]
                                 \in Range(semantic.all_matches)

\* Fan-out in which namespace 1 fails and a later namespace contributes
C13_Witness ==
    /\ semantic.pc = "returned"
    /\ semantic.upload_id = NoUpload
    /\ semantic.uploads >= 2
    /\ semantic.index[1].raises
    /\ semantic.all_matches # <<>>

\* C15: with upload_id omitted every known namespace is searched with the
\* same top_k, and the matches kept are the top_k highest-scoring entries of
\* the concatenation of the namespaces' results in descending score order;
\* the output never has more than top_k hits.
C15_FanOutMerge ==
    (semantic.pc = "returned" /\ semantic.upload_id = NoUpload) =>
        /\ semantic.queried = [ns \in 1..semantic.uploads |->
                                  [namespace |-> ns, top_k |-> semantic.top_k]]
        /\ Len(semantic.matches) = Min(semantic.top_k, Len(semantic.all_matches))
        /\ IsDescending(MatchScores(semantic.matches))
        /\ IsInjective(semantic.matches)
        /\ Range(semantic.matches) \subseteq Range(semantic.all_matches)
        /\ \A m \in Range(semantic.all_matches) \ Range(semantic.matches) :
              \A k \in Range(semantic.matches) : m.score <= k.score
        /\ Len(semantic.results) <= Len(semantic.matches)
        /\ Len(semantic.results) <= semantic.top_k

\* Three namespaces of two hits each, the best hit not in the first one
C15_Witness ==
    /\ semantic.pc = "returned"
    /\ semantic.upload_id = NoUpload
    /\ semantic.uploads = 3
    /\ Len(semantic.all_matches) = 6
    /\ semantic.all_matches[1].score < semantic.all_matches[3].score
    /\ Len(semantic.results) = semantic.top_k

(***************************************************************************)
(* KeywordRanker (KeywordRetriever.retrieve).                               *)
(*                                                                          *)
(* The candidate pool is the list chunks the query on the database returns; *)
(* candidate i is chunks[i].  The BM25 scores come from the rank_bm25       *)
(* library and are an input: scores[i] is the score of candidate i for the  *)
(* query, 0 when no query term occurs in the candidate, and possibly        *)
(* negative.  retrieve has no await: it runs from the call to the return.   *)
(***************************************************************************)
MaxCandidates == 3

KeywordScores == {-1, 0, 1, 2}

\* A faulty variant of IsPositive: candidates of score 0 are kept.
IsPositive_NonNegative(score) == score >= 0

\* "if scores[idx] > 0"
IsPositive(score) == score > 0

RECURSIVE InsertIndex(_, _, _)
InsertIndex(sorted, i, scores) ==
    IF sorted = <<>> THEN <<i>>
    ELSE IF scores[Head(sorted)] >= scores[i]
         THEN <<Head(sorted)>> \o InsertIndex(Tail(sorted), i, scores)
         ELSE <<i>> \o sorted

RECURSIVE SortIndicesFrom(_, _, _)
SortIndicesFrom(sorted, i, scores) ==
    IF i > Len(scores) THEN sorted
    ELSE SortIndicesFrom(InsertIndex(sorted, i, scores), i + 1, scores)

\* sorted(range(len(scores)), key=lambda i: scores[i], reverse=True)[:top_k]
TopIndices(scores, top_k) == Take(SortIndicesFrom(<<>>, 1, scores), top_k)

\* The loop "for idx in top_indices"
RECURSIVE KeywordResults(_, _)
KeywordResults(top_indices, scores) ==
    IF top_indices = <<>> THEN <<>>
    ELSE LET idx == Head(top_indices)
         IN  (IF IsPositive(scores[idx])
              THEN <<[chunk |-> idx, score |-> scores[idx],
                      method |-> "keyword"]>>
              ELSE <<>>)
             \o KeywordResults(Tail(top_indices), scores)

keyword_retrieve(scores, top_k) ==
    IF scores = <<>> THEN <<>>
    ELSE KeywordResults(TopIndices(scores, top_k), scores)

InitKeyword ==
    /\ indexing = Idle
    /\ keyword = [pc |-> "ready"]
    /\ citation = Idle /\ context = Idle /\ chunker = Idle /\ fusion = Idle
    /\ mmr = Idle /\ query = Idle /\ semantic = Idle /\ ingestion = Idle

KeywordRetrieve ==
    /\ keyword.pc = "ready"
    /\ \E scores \in SeqsUpTo(KeywordScores, MaxCandidates),
          top_k \in 1..MaxTopK :
          keyword' = [pc      |-> "returned",
                      scores  |-> scores,
                      top_k   |-> top_k,
                      results |-> keyword_retrieve(scores, top_k)]
    /\ UNCHANGED <<indexing, citation, context, chunker, fusion, mmr,
                   query, semantic, ingestion>>

\* The database query or the scoring raises: "except Exception: ... raise"
KeywordRetrieveRaises ==
    /\ keyword.pc = "ready"
    /\ keyword' = [pc |-> "raised"]
    /\ UNCHANGED <<indexing, citation, context, chunker, fusion, mmr,
                   query, semantic, ingestion>>

NextKeyword ==
    \/ KeywordRetrieve
    \/ KeywordRetrieveRaises

SpecKeyword == InitKeyword /\ [][NextKeyword]_vars

\* Candidate i comes before candidate j in the order C14 states: higher
\* score first, equal scores in the candidates' original order
RankedBefore(scores, i, j) ==
    scores[i] > scores[j] \/ (scores[i] = scores[j] /\ i < j)

\* Position of candidate i in the list of the candidates of score > 0 in
\* that order
PositiveRank(scores, i) ==
    1 + Cardinality({j \in 1..Len(scores) :
                        scores[j] > 0 /\ RankedBefore(scores, j, i)})

\* C14: the result of retrieve is exactly the first topK entries of the list
\* of the candidates with score > 0 ordered by score descending, ties in the
\* candidates' original order; when no candidate has a matching term (all
\* scores 0) the result is empty.
C14_KeywordTopK ==
    keyword.pc = "returned" =>
        LET scores == keyword.scores
            results == keyword.results
            positive == {i \in 1..Len(scores) : scores[i] > 0}
        IN  /\ Len(results) = Min(keyword.top_k, Cardinality(positive))
            /\ \A k \in 1..Len(results) :
                  /\ results[k].chunk \in positive
                  /\ PositiveRank(scores, results[k].chunk) = k
                  /\ results[k].score = scores[results[k].chunk]
            /\ (\A i \in 1..Len(scores) : scores[i] = 0) => results = <<>>

\* Two positive candidates tie behind a non-positive one, and a candidate of
\* score 0 is left out
C14_Witness ==
    /\ keyword.pc = "returned"
    /\ Len(keyword.scores) = 3
    /\ keyword.scores[1] = 0
    /\ keyword.scores[2] = keyword.scores[3]
    /\ Len(keyword.results) = 2
    /\ keyword.results[1].chunk = 2

(***************************************************************************)
(* Chunker: repeated calls and construction.                                *)
(***************************************************************************)

\* C16: chunk_text called twice on the same chunker with identical text and
\* parameters returns identical chunk lists (contents, token counts, offsets,
\* indices, page numbers); what the first call leaves behind, the entry set
\* in the caller's metadata dict, does not change the second.
C16_ChunkTextIdempotent ==
    chunker.pc = "chunk_text_again" => chunker.repeat = chunker.chunks

\* The first call wrote page_number into the caller's dict and returned
\* several chunks
C16_Witness ==
    /\ chunker.pc = "chunk_text_again"
    /\ chunker.page_number # NoPage
    /\ ~chunker.metadata.empty
    /\ Len(chunker.chunks) >= 2
    /\ chunker.repeat = chunker.chunks

\* C17 as stated: constructing a TokenChunker fails with ChunkingError
\* exactly when chunk_size <= 0, or chunk_overlap < 0, or chunk_overlap >=
\* chunk_size; with 0 <= chunk_overlap < chunk_size it succeeds; no chunker
\* with invalid parameters is ever used to chunk.
C17_ConfigErrorExactly ==
    chunker.pc # "new" =>
        LET invalid == \/ chunker.cfg.chunk_size <= 0
                       \/ chunker.cfg.chunk_overlap < 0
                       \/ chunker.cfg.chunk_overlap >= chunker.cfg.chunk_size
        IN  /\ chunker.pc = "raised" <=> invalid
            /\ chunker.pc \in {"chunk_text", "chunk_text_again", "chunk_by_pages"}
                  => ~invalid

\* C17 amended: construction fails with ChunkingError exactly when
\* chunk_size <= 0, or chunk_overlap < 0, or chunk_overlap >= chunk_size, or
\* the tiktoken encoding cannot be loaded; with valid parameters and a
\* loadable encoding it succeeds; no chunker with invalid parameters is ever
\* used to chunk.
C17_ConfigErrorAmended ==
    chunker.pc # "new" =>
        LET invalid == \/ chunker.cfg.chunk_size <= 0
                       \/ chunker.cfg.chunk_overlap < 0
                       \/ chunker.cfg.chunk_overlap >= chunker.cfg.chunk_size
        IN  /\ chunker.pc = "raised" <=> (invalid \/ ~chunker.encoding_loads)
            /\ chunker.pc = "raised" => chunker.error.raised = "ChunkingError"
            /\ chunker.pc \in {"chunk_text", "chunk_text_again", "chunk_by_pages"}
                  => chunker.cfg \in ChunkerConfigs

\* Construction refused for an overlap equal to the chunk size
C17_Witness ==
    /\ chunker.pc = "raised"
    /\ chunker.cfg.chunk_size >= 1
    /\ chunker.cfg.chunk_overlap = chunker.cfg.chunk_size
    /\ chunker.encoding_loads

(***************************************************************************)
(* Hybrid retrieval: the join before fusion.                                *)
(***************************************************************************)

\* C19: within one hybrid query, fusion runs only after both the semantic
\* and the keyword retriever have returned their lists, and on exactly those
\* lists; if either retriever raises, fusion never runs and the query fails
\* without returning results.
C19_JoinBeforeFusion ==
    fusion.pc # "idle" =>
        /\ fusion.fusion_runs >= 1 =>
              /\ fusion.semantic = "returned" /\ fusion.keyword = "returned"
              /\ {fusion.fused_results[n].chunk :
                     n \in 1..Len(fusion.fused_results)}
                    = Range(fusion.semantic_results)
                         \cup Range(fusion.keyword_results)
        /\ (fusion.semantic = "raised" \/ fusion.keyword = "raised") =>
              /\ fusion.pc = "raised"
              /\ fusion.fusion_runs = 0
              /\ fusion.final_results = <<>>
        /\ fusion.pc = "done" => fusion.fusion_runs = 1

\* The keyword retriever fails after the semantic one has returned results
C19_Witness ==
    /\ fusion.pc = "raised"
    /\ fusion.semantic = "returned"
    /\ fusion.keyword = "raised"
    /\ fusion.semantic_results # <<>>
    /\ fusion.fusion_runs = 0

(***************************************************************************)
(* IngestionService.process_upload_batch.                                   *)
(*                                                                          *)
(* A file of the batch is given by how its processing ends: "ok", or the    *)
(* step that fails (validation and extraction fail before the Document row  *)
(* exists, chunking after).  The documents are processed by concurrent      *)
(* tasks, so ProcessSingleDocument may run for the files in any order;      *)
(* process_single_document never raises, it returns the Document or the     *)
(* exception, and asyncio.gather(..., return_exceptions=True) hands the     *)
(* results to _process_files when all tasks are done.                       *)
(***************************************************************************)
MaxFiles == 3

FileOutcomes == {"ok", "validation_error", "extraction_error", "chunking_error"}

\* What process_single_document returns for a file
SingleDocumentResult(file) == IF file = "ok" THEN "Document" ELSE "Exception"

\* The status of the file's Document row when the task ends ("none": no row)
DocumentStatusAfter(file) ==
    IF file = "ok" THEN "completed"
    ELSE IF file = "chunking_error" THEN "failed"
    ELSE "none"

\* sum(1 for r in results if isinstance(r, ...))
CountResults(results, kind) ==
    Cardinality({i \in 1..Len(results) : results[i] = kind})

InitIngest ==
    /\ indexing = Idle
    /\ ingestion = [pc |-> "ready"]
    /\ citation = Idle /\ context = Idle /\ chunker = Idle /\ fusion = Idle
    /\ mmr = Idle /\ query = Idle /\ semantic = Idle /\ keyword = Idle

\* process_upload_batch up to "await self._process_files(files, upload)":
\* an empty batch is refused by validate_batch_size, else the Upload row is
\* created PENDING and the tasks are started.
ProcessUploadBatch ==
    /\ ingestion.pc = "ready"
    /\ \E files \in SeqsUpTo(FileOutcomes, MaxFiles) :
          ingestion' =
              [pc        |-> IF files = <<>> THEN "raised" ELSE "processing",
               files     |-> files,
               results   |-> [i \in 1..Len(files) |-> "pending"],
               documents |-> [i \in 1..Len(files) |-> "none"],
               upload    |-> [status               |-> IF files = <<>> THEN "none"
                                                       ELSE "pending",
                              total_documents      |-> Len(files),
                              successful_documents |-> 0,
                              failed_documents     |-> 0]]
    /\ UNCHANGED <<indexing, citation, context, chunker, fusion, mmr,
                   query, semantic, keyword>>

\* The task of file i runs process_single_document to its return
ProcessSingleDocument ==
    /\ ingestion.pc = "processing"
    /\ \E i \in 1..Len(ingestion.files) :
          /\ ingestion.results[i] = "pending"
          /\ ingestion' = [ingestion EXCEPT
                 !.results[i] = SingleDocumentResult(ingestion.files[i]),
                 !.documents[i] = DocumentStatusAfter(ingestion.files[i])]
    /\ UNCHANGED <<indexing, citation, context, chunker, fusion, mmr,
                   query, semantic, keyword>>

\* gather returns: _process_files counts the results, then
\* process_upload_batch sets the status, commits and returns the upload.
\* (The "except Exception" of process_upload_batch, which sets FAILED, needs
\* _process_files to raise; no outcome of a document makes it raise, since
\* every exception of a task is returned as a result.)
FinishBatch ==
    /\ ingestion.pc = "processing"
    /\ \A i \in 1..Len(ingestion.files) : ingestion.results[i] # "pending"
    /\ ingestion' = [ingestion EXCEPT
           !.pc = "returned",
           !.upload.successful_documents =
               CountResults(ingestion.results, "Document"),
           !.upload.failed_documents =
               CountResults(ingestion.results, "Exception"),
           !.upload.status = "completed"]
    /\ UNCHANGED <<indexing, citation, context, chunker, fusion, mmr,
                   query, semantic, keyword>>

NextIngest ==
    \/ ProcessUploadBatch
    \/ ProcessSingleDocument
    \/ FinishBatch

SpecIngest == InitIngest /\ [][NextIngest]_vars

\* C20: if the processing of a document of the batch fails,
\* process_upload_batch ends with the upload in status FAILED and
\* failed_documents counting that document; the upload is COMPLETED only
\* when no document failed.
C20_BatchFailureStatus ==
    ingestion.pc = "returned" =>
        LET failed == {i \in 1..Len(ingestion.files) : ingestion.files[i] # "ok"}
        IN  /\ failed # {} =>
                  /\ ingestion.upload.status = "failed"
                  /\ ingestion.upload.failed_documents = Cardinality(failed)
            /\ ingestion.upload.status = "completed" => failed = {}

(***************************************************************************)
(* Chunker: offsets, overlap seeding and token totals of the segments.      *)
(***************************************************************************)

\* The last sentence of a chunk
LastSentence(chunk) == chunk.content[Len(chunk.content)]

\* Sum of the token counts of the sentences of text at the positions listed
RECURSIVE SumTokens(_, _)
SumTokens(text, positions) ==
    IF positions = <<>> THEN 0
    ELSE text[Head(positions)].tokens + SumTokens(text, Tail(positions))

\* The positions a..b in order (empty when a > b)
Run(a, b) == [n \in 1..(b - a + 1) |-> a + n - 1]

\* C21: every segment closed on overflow (its last sentence is not the last
\* of the text) records startChar = the start offset of its first sentence
\* and endChar = the start offset of the sentence that triggered the
\* overflow, the one after its last sentence.
C21_SegmentOffsets ==
    chunker.pc = "chunk_text" =>
        \A k \in 1..Len(chunker.chunks) :
            LET c == chunker.chunks[k]
            IN  LastSentence(c) < Len(chunker.text) =>
                    /\ c.start_char = SentenceStart(chunker.text, c.content[1])
                    /\ c.end_char = SentenceStart(chunker.text, LastSentence(c) + 1)

\* C22: when a segment is closed at sentence i, the next segment is seeded
\* with exactly the longest contiguous run of sentences ending at i - 1
\* whose token total is <= overlapTokens, in original order; no earlier,
\* non-adjacent sentence is seeded.
C22_OverlapSeeding ==
    chunker.pc = "chunk_text" =>
        \A k \in 2..Len(chunker.chunks) :
            LET prev   == LastSentence(chunker.chunks[k - 1])
                seeded == SelectSeq(chunker.chunks[k].content,
                                    LAMBDA n : n <= prev)
                first  == CHOOSE a \in 1..(prev + 1) :
                              /\ SumTokens(chunker.text, Run(a, prev))
                                    <= chunker.cfg.chunk_overlap
                              /\ \A b \in 1..(a - 1) :
                                    SumTokens(chunker.text, Run(b, prev))
                                       > chunker.cfg.chunk_overlap
            IN  seeded = Run(first, prev)

\* C23: if every sentence of the text has at most targetTokens tokens, the
\* token total of every emitted segment (the sum over its sentences, seeded
\* overlap included) is <= targetTokens.
C23_SegmentTokenBound ==
    (chunker.pc = "chunk_text"
        /\ \A n \in 1..Len(chunker.text) :
              chunker.text[n].tokens <= chunker.cfg.chunk_size) =>
        \A k \in 1..Len(chunker.chunks) :
            SumTokens(chunker.text, chunker.chunks[k].content)
                <= chunker.cfg.chunk_size


(***************************************************************************)
(* TokenChunker.split_by_sentences (chunking.py).  A raw text is a sequence *)
(* of symbols: "w" a run of non-blank characters, "s" blanks other than a  *)
(* line break, "n" a line break, "B" a whitespace run that the pattern     *)
(* matches (after . ? ! and before a capital).  The match is greedy, so a  *)
(* "B" has a "w" directly on each side.                                    *)
(***************************************************************************)
MaxRawLen == 4

RawSymbols == {"w", "s", "n", "B"}

RawTexts ==
    {t \in SeqsUpTo(RawSymbols, MaxRawLen) :
        \A i \in 1..Len(t) :
            t[i] = "B" => /\ i > 1 /\ i < Len(t)
                          /\ t[i - 1] = "w" /\ t[i + 1] = "w"}

\* str.isspace() of one symbol
IsSpace(c) == c \in {"s", "n"}

\* re.split(pattern, text) and text.split('\n'): the pieces between the
\* occurrences of sep, empty pieces kept
RECURSIVE SplitOn(_, _, _)
SplitOn(text, sep, piece) ==
    IF text = <<>> THEN <<piece>>
    ELSE IF Head(text) = sep
         THEN <<piece>> \o SplitOn(Tail(text), sep, <<>>)
         ELSE SplitOn(Tail(text), sep, Append(piece, Head(text)))

\* str.strip()
Strip(s) ==
    LET solid == {i \in 1..Len(s) : ~IsSpace(s[i])}
    IN  IF solid = {} THEN <<>>
        ELSE SubSeq(s, CHOOSE i \in solid : \A j \in solid : i <= j,
                       CHOOSE i \in solid : \A j \in solid : i >= j)

\* [p.strip() for p in pieces if p.strip()]
StripNonEmpty(pieces) ==
    SelectSeq([i \in 1..Len(pieces) |-> Strip(pieces[i])],
              LAMBDA p : p # <<>>)

\* 'if not sentences' before the split on line breaks
NoSentences(sentences) == sentences = <<>>

split_by_sentences(text) ==
    LET sentences == StripNonEmpty(SplitOn(text, "B", <<>>))
        lines     == IF NoSentences(sentences)
                     THEN StripNonEmpty(SplitOn(text, "n", <<>>))
                     ELSE sentences
    IN  IF lines = <<>> THEN <<text>> ELSE lines

InitSplit ==
    /\ indexing = Idle
    /\ chunker \in {[pc |-> "text", text |-> t] : t \in RawTexts}
    /\ citation = Idle /\ context = Idle /\ fusion = Idle /\ mmr = Idle
    /\ query = Idle /\ semantic = Idle /\ keyword = Idle /\ ingestion = Idle

SplitBySentences ==
    /\ chunker.pc = "text"
    /\ chunker' = [pc |-> "split_by_sentences", text |-> chunker.text,
                   sentences |-> split_by_sentences(chunker.text)]
    /\ UNCHANGED <<indexing, citation, context, fusion, mmr, query, semantic,
                   keyword, ingestion>>

NextSplit == SplitBySentences

SpecSplit == InitSplit /\ [][NextSplit]_vars

\* The non-empty lines of a text, stripped, in order
NonEmptyLines(text) == StripNonEmpty(SplitOn(text, "n", <<>>))

\* C24: for a non-blank text without a punctuation-based sentence boundary,
\* split_by_sentences returns one sentence per non-empty line when the text
\* has a line break between two non-empty lines, and the whole text as a
\* single sentence only when it has none.
C24_NewlineFallback ==
    (/\ chunker.pc = "split_by_sentences"
     /\ Strip(chunker.text) # <<>>
     /\ "B" \notin Range(chunker.text))
    => IF Len(NonEmptyLines(chunker.text)) >= 2
       THEN chunker.sentences = NonEmptyLines(chunker.text)
       ELSE /\ Len(chunker.sentences) = 1
            /\ Strip(chunker.sentences[1]) = Strip(chunker.text)


\* The marker numbers of an answer that lie within 1..len(hits), each once,
\* ascending
ValidMarkers(answer_text, chunks_used) ==
    SortedSetOf({n \in Range(extract_citations_from_text(answer_text)) :
                    1 <= n /\ n <= Len(chunks_used)})

\* C25: extract_citations returns exactly one CitationRecord per distinct
\* marker number N with 1 <= N <= len(hits), in ascending order of N whatever
\* the order or repetition of the markers in the text, and the record for N
\* carries the segment id and the score of the hit at list position N - 1.
C25_CitationOrderAndMapping ==
    citation.pc = "done" =>
        LET valid == ValidMarkers(citation.answer_text, citation.chunks_used)
        IN  /\ Len(citation.citations) = Len(valid)
            /\ \A k \in 1..Len(valid) :
                  LET hit == citation.chunks_used[valid[k]]
                  IN  /\ citation.citations[k].chunk_id = hit.chunk_id
                      /\ citation.citations[k].relevance_score = hit.score


\* The estimate of the full block of the i-th selected hit
BlockEstimate(chunks, i) ==
    estimate_tokens(format_chunk_for_context(chunks[i].filename_words,
                                             chunks[i].content_words))

\* The running estimate after the full blocks of the first n hits
RECURSIVE RunningEstimate(_, _)
RunningEstimate(chunks, n) ==
    IF n = 0 THEN 0
    ELSE RunningEstimate(chunks, n - 1) + BlockEstimate(chunks, n)

\* The hits whose full block would push the running estimate over the budget
OverflowingHits(chunks, max_tokens) ==
    {i \in 1..Len(chunks) : RunningEstimate(chunks, i) > max_tokens}

\* C26: the blocks of the assembled context are those of a prefix of the
\* selected hits, numbered 1..m in hit order; at the first hit whose block
\* would push the running estimate over maxContextTokens a truncated version
\* of that hit is appended if and only if the remaining budget is greater
\* than 100 tokens, and assembly stops there: no later hit is included.
C26_ContextOverflowRule ==
    context.pc = "done" =>
        LET chunks == context.chunks
            parts  == context.context_parts
            over   == OverflowingHits(chunks, context.max_tokens)
        IN  /\ \A k \in 1..Len(parts) : parts[k].index = k
            /\ IF over = {}
               THEN /\ Len(parts) = Len(chunks)
                    /\ \A k \in 1..Len(parts) : ~parts[k].truncated
               ELSE LET first     == CHOOSE i \in over : \A j \in over : i <= j
                        remaining == context.max_tokens
                                         - RunningEstimate(chunks, first - 1)
                    IN  /\ \A k \in 1..(first - 1) :
                              /\ ~parts[k].truncated
                              /\ parts[k].words =
                                     format_chunk_for_context(
                                         chunks[k].filename_words,
                                         chunks[k].content_words)
                        /\ IF remaining > 100
                           THEN /\ Len(parts) = first
                                /\ parts[first].truncated
                                /\ parts[first].words =
                                       format_chunk_for_context(
                                           chunks[first].filename_words,
                                           truncate_text(
                                               chunks[first].content_words,
                                               remaining))
                           ELSE Len(parts) = first - 1

\* Two hits were selected; the first overflowed with more than 100 tokens
\* left and went in truncated, and the second, whose block fits the whole
\* budget on its own, was left out.
C26_Witness ==
    /\ context.pc = "done"
    /\ Len(context.chunks) = 2
    /\ Len(context.context_parts) = 1
    /\ context.context_parts[1].truncated
    /\ BlockEstimate(context.chunks, 2) <= context.max_tokens


\* The matches of a list whose vector id is the embeddingRef of a chunk row,
\* in list order, as retrieval results
Resolvable(matches, deleted) ==
    LET kept == SelectSeq(matches, LAMBDA match : match.id \notin deleted)
    IN  [k \in 1..Len(kept) |->
            [chunk |-> kept[k].id, score |-> kept[k].score,
             method |-> "semantic"]]

\* C27: retrieve returns exactly those of the selected top-K vector matches
\* whose id is the embeddingRef of an existing Segment, in the same relative
\* order and with the match score; a match without such a Segment is dropped
\* without error and no lower-ranked match takes its place.
C27_VectorIdResolution ==
    semantic.pc = "returned" =>
        /\ Len(semantic.matches) <= semantic.top_k
        /\ semantic.results = Resolvable(semantic.matches, semantic.deleted)

\* A fan-out search in which a selected match has no chunk row: fewer than
\* top_k results are returned although a resolvable match was cut off.
C27_Witness ==
    /\ semantic.pc = "returned"
    /\ semantic.upload_id = NoUpload
    /\ \E m \in Range(semantic.matches) : m.id \in semantic.deleted
    /\ Len(semantic.results) < semantic.top_k
    /\ \E m \in Range(semantic.all_matches) :
          m \notin Range(semantic.matches) /\ m.id \notin semantic.deleted


(***************************************************************************)
(* IndexingService (indexing_service.py) over one upload batch.  The chunk *)
(* rows of the batch's documents and the upload's vector namespace are the *)
(* state; callers pass document.upload_id and no tenant, so every call     *)
(* works on that one namespace.  index_document awaits the embedding       *)
(* provider once; the two deletions have no await and may run while an     *)
(* index_document call is waiting.                                          *)
(***************************************************************************)
MaxDocChunks == 2
UpsertBatchSize == 1

\* Document rows of the upload, and the ids a caller may ask for
Documents == {1, 2}

RequestedDocuments == {0} \cup Documents

\* Chunk rows: chunk k of document d, k being its chunk_index
ChunkIds == Documents \X (1..MaxDocChunks)

\* chunk.embedding_id of a chunk that is not indexed (NULL)
NoEmbedding == <<>>

\* PineconeStore.build_vector_id: f"chunk:{chunk_id}"
build_vector_id(chunk_id) == <<"chunk", chunk_id>>

\* "filter(Chunk.document_id == document_id)", plus
\* "filter(Chunk.embedding_id.is_(None))" unless force,
\* "order_by(Chunk.chunk_index).all()"
LoadChunks(embedding_id, document_id, force) ==
    SelectSeq([k \in 1..MaxDocChunks |-> <<document_id, k>>],
              LAMBDA c : force \/ embedding_id[c] = NoEmbedding)

\* "filter(Chunk.document_id == document_id, Chunk.embedding_id.isnot(None))"
IndexedChunks(embedding_id, document_id) ==
    {c \in ChunkIds : c[1] = document_id /\ embedding_id[c] # NoEmbedding}

\* The vectors whose metadata doc_id is document_id
DocumentVectors(document_id) ==
    {build_vector_id(c) : c \in {x \in ChunkIds : x[1] = document_id}}

\* upsert_vectors: the batches "vectors[i:i + effective_batch_size]" go in
\* one by one; failed_batch = 0 when every batch goes in, else the first
\* failed_batch - 1 batches are in the index when the exception leaves.
Batches(vectors) == (Len(vectors) + UpsertBatchSize - 1) \div UpsertBatchSize

Upserted(vectors, failed_batch) ==
    IF failed_batch = 0 THEN Range(vectors)
    ELSE Range(Take(vectors, (failed_batch - 1) * UpsertBatchSize))

\* A faulty variant of RefsAfterFailedUpsert: embedding_id is written before
\* the upsert, so the chunks keep it when the upsert raises.
RefsAfterFailedUpsert_Written(embedding_id, chunks) ==
    [c \in ChunkIds |-> IF c \in Range(chunks) THEN build_vector_id(c)
                        ELSE embedding_id[c]]

\* upsert_vectors raised: the loop that sets chunk.embedding_id is not
\* reached
RefsAfterFailedUpsert(embedding_id, chunks) == embedding_id

\* "for chunk, (vector_id, _, _) in zip(chunks, vectors):
\*      chunk.embedding_id = vector_id"
SetEmbeddingIds(embedding_id, chunks) ==
    [c \in ChunkIds |-> IF c \in Range(chunks) THEN build_vector_id(c)
                        ELSE embedding_id[c]]

\* "for chunk in chunks: chunk.embedding_id = None"
ClearEmbeddingIds(embedding_id, chunks) ==
    [c \in ChunkIds |-> IF c \in chunks THEN NoEmbedding ELSE embedding_id[c]]

InitIndex ==
    /\ indexing = [pc           |-> "idle",
                   embedding_id |-> [c \in ChunkIds |-> NoEmbedding],
                   vectors      |-> {},
                   document_id  |-> 0,
                   force        |-> FALSE,
                   chunks       |-> <<>>,
                   last         |-> [op |-> "none", status |-> "none"]]
    /\ citation = Idle /\ context = Idle /\ chunker = Idle /\ fusion = Idle
    /\ mmr = Idle /\ query = Idle /\ semantic = Idle /\ keyword = Idle
    /\ ingestion = Idle

\* index_document up to "await self.embedding_provider.embed_texts(texts)"
IndexDocument ==
    /\ indexing.pc = "idle"
    /\ \E document_id \in RequestedDocuments, force \in BOOLEAN :
          IF document_id \notin Documents
          THEN indexing' = [indexing EXCEPT
                   !.last = [op |-> "index_document", status |-> "raised"]]
          ELSE LET chunks == LoadChunks(indexing.embedding_id, document_id,
                                        force)
               IN  IF chunks = <<>>
                   THEN indexing' = [indexing EXCEPT
                            !.last = [op     |-> "index_document",
                                      status |-> "already_indexed"]]
                   ELSE indexing' = [indexing EXCEPT
                            !.pc = "embedding",
                            !.document_id = document_id,
                            !.force = force,
                            !.chunks = chunks]
    /\ UNCHANGED <<citation, context, chunker, fusion, mmr, query, semantic,
                   keyword, ingestion>>

\* embed_texts raises: the exception leaves index_document
IndexEmbedRaises ==
    /\ indexing.pc = "embedding"
    /\ indexing' = [indexing EXCEPT
           !.pc = "idle",
           !.last = [op |-> "index_document", status |-> "raised"]]
    /\ UNCHANGED <<citation, context, chunker, fusion, mmr, query, semantic,
                   keyword, ingestion>>

\* embed_texts returns: the vectors are built and upserted, then the
\* embedding_id of the loaded chunks is set and committed
IndexEmbedReturns ==
    /\ indexing.pc = "embedding"
    /\ LET vectors == [n \in 1..Len(indexing.chunks) |->
                          build_vector_id(indexing.chunks[n])]
       IN  \E failed_batch \in 0..Batches(vectors) :
              indexing' = [indexing EXCEPT
                  !.pc = "idle",
                  !.vectors = @ \cup Upserted(vectors, failed_batch),
                  !.embedding_id =
                      IF failed_batch = 0
                      THEN SetEmbeddingIds(@, indexing.chunks)
                      ELSE RefsAfterFailedUpsert(@, indexing.chunks),
                  !.last = [op     |-> "index_document",
                            status |-> IF failed_batch = 0 THEN "returned"
                                       ELSE "raised"]]
    /\ UNCHANGED <<citation, context, chunker, fusion, mmr, query, semantic,
                   keyword, ingestion>>

\* delete_document_vectors, called for a document of the upload
DeleteDocumentVectors ==
    /\ \E document_id \in Documents, delete_raises \in BOOLEAN :
          LET chunks == IndexedChunks(indexing.embedding_id, document_id)
          IN  IF chunks = {}
              THEN indexing' = [indexing EXCEPT
                       !.last = [op     |-> "delete_document_vectors",
                                 status |-> "nothing"]]
              ELSE IF delete_raises
              THEN indexing' = [indexing EXCEPT
                       !.last = [op     |-> "delete_document_vectors",
                                 status |-> "raised"]]
              ELSE indexing' = [indexing EXCEPT
                       !.vectors = @ \ DocumentVectors(document_id),
                       !.embedding_id = ClearEmbeddingIds(@, chunks),
                       !.last = [op     |-> "delete_document_vectors",
                                 status |-> "returned"]]
    /\ UNCHANGED <<citation, context, chunker, fusion, mmr, query, semantic,
                   keyword, ingestion>>

\* delete_upload_vectors: the whole namespace, then every indexed chunk of
\* every document of the upload
DeleteUploadVectors ==
    /\ \E delete_raises \in BOOLEAN :
          IF delete_raises
          THEN indexing' = [indexing EXCEPT
                   !.last = [op     |-> "delete_upload_vectors",
                             status |-> "raised"]]
          ELSE indexing' = [indexing EXCEPT
                   !.vectors = {},
                   !.embedding_id =
                       ClearEmbeddingIds(@,
                           UNION {IndexedChunks(indexing.embedding_id, d) :
                                     d \in Documents}),
                   !.last = [op     |-> "delete_upload_vectors",
                             status |-> "returned"]]
    /\ UNCHANGED <<citation, context, chunker, fusion, mmr, query, semantic,
                   keyword, ingestion>>

NextIndex ==
    \/ IndexDocument
    \/ IndexEmbedRaises
    \/ IndexEmbedReturns
    \/ DeleteDocumentVectors
    \/ DeleteUploadVectors

SpecIndex == InitIndex /\ [][NextIndex]_vars


\* Every embedding_id that is set names a vector present in the namespace
RefsResolve ==
    \A c \in ChunkIds :
        indexing.embedding_id[c] # NoEmbedding =>
            indexing.embedding_id[c] \in indexing.vectors

\* A step that ends an index_document call with an exception
FailedIndexKeepsRefs ==
    (/\ indexing'.pc = "idle"
     /\ indexing'.last = [op |-> "index_document", status |-> "raised"])
    => indexing'.embedding_id = indexing.embedding_id

\* A step that ends an index_document call made without force
UnforcedIndexKeepsSetRefs ==
    (/\ indexing.pc = "embedding"
     /\ indexing'.pc = "idle"
     /\ ~indexing.force)
    => \A c \in ChunkIds :
          indexing.embedding_id[c] # NoEmbedding =>
              indexing'.embedding_id[c] = indexing.embedding_id[c]

\* C28: in every state reached by index_document (with or without force),
\* delete_document_vectors and delete_upload_vectors, failures of the
\* embedding provider, the upsert and the delete included, a chunk's
\* embeddingRef is non-null only if the vector of that id is in the store;
\* a failed indexing call changes no embeddingRef, and an indexing pass
\* without force leaves every embeddingRef that is already set as it is.
C28_NoDanglingEmbeddingRef ==
    /\ []RefsResolve
    /\ [][FailedIndexKeepsRefs /\ UnforcedIndexKeepsSetRefs]_vars

\* An index_document call has just failed in its upsert after a batch went
\* in: a vector without a reference is in the store next to a chunk indexed
\* earlier.
C28_Witness ==
    /\ indexing.last = [op |-> "index_document", status |-> "raised"]
    /\ \E c \in ChunkIds : indexing.embedding_id[c] # NoEmbedding
    /\ \E c \in ChunkIds :
          /\ indexing.embedding_id[c] = NoEmbedding
          /\ build_vector_id(c) \in indexing.vectors


\* The chunks whose block, full or truncated, is in the context string handed
\* to the generator
ShownChunks ==
    {query.selected_chunks[query.context_parts[j].index].chunk_id :
        j \in 1..Len(query.context_parts)}

\* C29: every CitationRecord returned by process_query refers to a hit whose
\* block (full or truncated) was included in the context string given to the
\* generator; a marker pointing at a selected hit that context assembly
\* dropped for lack of budget produces no record.
C29_CitationsOnlyToShownSources ==
    (query.pc \in {"logging", "returned"} /\ query.generate_calls >= 1) =>
        \A k \in 1..Len(query.response.citations) :
            query.response.citations[k].chunk_id \in ShownChunks


\* Position of a chunk in a result list, 0 if absent
ListPos(results, chunk_id) ==
    IF \E p \in 1..Len(results) : results[p] = chunk_id
    THEN CHOOSE p \in 1..Len(results) : results[p] = chunk_id
    ELSE 0

\* Order of first insertion: the chunks of the semantic list in semantic
\* order, then the chunks only in the keyword list in keyword order
FirstInsertion(chunk_id) ==
    IF ListPos(fusion.semantic_results, chunk_id) # 0
    THEN ListPos(fusion.semantic_results, chunk_id)
    ELSE Len(fusion.semantic_results)
             + ListPos(fusion.keyword_results, chunk_id)

\* C30: two distinct Segments with equal fused scores are ordered by first
\* insertion (Segments of the semantic list first, in semantic order, then
\* Segments only in the keyword list, in keyword order), and the topK cut is
\* the prefix of that order.
C30_FusionTieBreak ==
    fusion.pc = "done" =>
        /\ \A a, b \in 1..Len(fusion.fused_results) :
              (a < b /\ RatEq(fusion.fused_results[a].score,
                              fusion.fused_results[b].score)) =>
                  FirstInsertion(fusion.fused_results[a].chunk)
                      < FirstInsertion(fusion.fused_results[b].chunk)
        /\ fusion.final_results = Take(fusion.fused_results, fusion.top_k)

\* Two chunks tie, one of them found by the keyword retriever only, and the
\* cut falls between them.
C30_Witness ==
    /\ fusion.pc = "done"
    /\ Len(fusion.fused_results) > fusion.top_k
    /\ LET a == fusion.fused_results[fusion.top_k]
           b == fusion.fused_results[fusion.top_k + 1]
       IN  /\ RatEq(a.score, b.score)
           /\ ListPos(fusion.semantic_results, b.chunk) = 0

====
